---- MODULE Spec2Model ----
(***************************************************************************)
(* Model of the nginx log anomaly detection pipeline: normalizer, log      *)
(* parser, frequency baseline / isolation forest detectors, training with  *)
(* threshold calibration, the model registry and the ingest service.       *)
(*                                                                         *)
(* Conventions.                                                            *)
(*  - An optional Python value (X | None) is a sequence of length <= 1:    *)
(*    <<>> is None and <<v>> is the value v.                               *)
(*  - A Python str is a sequence of tokens; a token is either a maximal    *)
(*    run of word characters (what the regex \b delimits) or one separator *)
(*    character.  The empty str is <<>>.                                   *)
(*  - A Python float that the code obtains by exact arithmetic on small    *)
(*    integers is a reduced fraction [n |-> numerator, d |-> denominator]. *)
(***************************************************************************)
EXTENDS Integers, Sequences, FiniteSets, TLC

VARIABLES
    detector,   \* the detector instance under test (models/baseline.py, models/isolation_forest.py)
    detOut,     \* the last completed detector call and what it returned
    trainedOn,  \* history: the events the last completed train of `detector` consumed,
                \* as a bag (event -> number of occurrences in the batch)
    now,        \* the wall clock, in half seconds (datetime.now)
    fs,         \* the artifact directory: path -> file content (infrastructure/registry.py)
    regOut,     \* the last completed train_model / load_latest call and its outcome
    lastSaved,  \* history: what the last completed train_model trained, scored and saved
    prevSaved,  \* history: the version returned by the completed save before that one
    nSaves,     \* number of completed saves
    savePc,     \* where a step-by-step ModelRegistry.save stands between its file writes
    saving,     \* the locals of that save: detector, model_type, timestamp, metadata
    service,    \* app.state.service: None, or the AnomalyService built at startup
    storage,    \* the log_records table (infrastructure/storage.py), oldest row first
    ingOut,     \* the last completed parse_lines / ingest / POST /ingest call and its outcome
    calls,      \* the score / predict calls in flight on `detector`, one per thread
    lineFields, \* the fields of the one line a parser is handed: the decoded JSON
                \* object or the groups of the access log pattern
    lineEvent   \* None, or the LogEvent the parser built from `lineFields`

detVars == <<detector, detOut, trainedOn>>
regVars == <<now, fs, regOut, lastSaved, prevSaved, nSaves>>
saveVars == <<savePc, saving>>
ingVars == <<service, storage, ingOut>>
serveVars == <<calls>>
parseVars == <<lineFields, lineEvent>>
vars == <<detVars, regVars, saveVars, ingVars, serveVars, parseVars>>

----------------------------------------------------------------------------
(* Bounds of the model *)

MaxTrain == 3
MaxScore == 2
MaxClock == 3
MaxSaves == 2
MaxLines == 3

----------------------------------------------------------------------------
(* Optional values and exact fractions *)

None == <<>>
Some(v) == <<v>>
IsNone(o) == o = <<>>
\* Python truthiness of an optional str atom, token str and int
TruthyAtom(o) == o # <<>> /\ o[1] # ""
TruthyStr(o) == o # <<>> /\ o[1] # <<>>
TruthyInt(o) == o # <<>> /\ o[1] # 0

Abs(i) == IF i < 0 THEN -i ELSE i

RECURSIVE Gcd(_, _)
Gcd(a, b) == IF b = 0 THEN a ELSE Gcd(b, a % b)

Frac(n, d) ==
    LET g == Gcd(Abs(n), Abs(d))
        s == IF d < 0 THEN -1 ELSE 1
    IN  [n |-> (s * n) \div g, d |-> (s * d) \div g]

FInt(i) == [n |-> i, d |-> 1]
FSub(a, b) == Frac(a.n * b.d - b.n * a.d, a.d * b.d)
FAdd(a, b) == Frac(a.n * b.d + b.n * a.d, a.d * b.d)
FMul(a, b) == Frac(a.n * b.n, a.d * b.d)
FDiv(a, b) == Frac(a.n * b.d, a.d * b.n)
FGeq(a, b) == a.n * b.d >= b.n * a.d
FLt(a, b)  == a.n * b.d < b.n * a.d

Zero == FInt(0)
One  == FInt(1)

Range(s) == {s[i] : i \in 1..Len(s)}

SeqsUpTo(S, n) == UNION {[1..k -> S] : k \in 0..n}

----------------------------------------------------------------------------
(* domain/normalization.py *)

\* tokens matched by NUMBER_RE = \b\d+\b
NumberTokens == {"123", "77", "42", "1234567", "10", "0", "1", "1234", "12345678"}
\* tokens matched by PATH_HEX_RE = \b[0-9a-fA-F]{6,}\b
PathHexTokens == {"1234567", "deadbeef", "12345678", "deadbeef1234"}
\* a \d{1,3} group of IP_RE
OctetTokens == {"123", "77", "42", "10", "0", "1"}
\* tokens matched by HEX_RE = \b0x[0-9a-fA-F]+\b
HexTokens == {"0x1f", "0xdeadbeef"}
\* the hex groups of UUID_RE
Hex8Tokens == {"deadbeef", "12345678"}
Hex4Tokens == {"beef", "1234"}
Hex12Tokens == {"deadbeef1234"}

RECURSIVE SubIP(_)
SubIP(s) ==
    IF s = <<>> THEN <<>>
    ELSE IF /\ Len(s) >= 7
            /\ \A k \in {1, 3, 5, 7} : s[k] \in OctetTokens
            /\ \A k \in {2, 4, 6} : s[k] = "."
         THEN <<"<IP>">> \o SubIP(SubSeq(s, 8, Len(s)))
         ELSE <<Head(s)>> \o SubIP(Tail(s))

RECURSIVE SubUUID(_)
SubUUID(s) ==
    IF s = <<>> THEN <<>>
    ELSE IF /\ Len(s) >= 9
            /\ s[1] \in Hex8Tokens
            /\ \A k \in {3, 5, 7} : s[k] \in Hex4Tokens
            /\ s[9] \in Hex12Tokens
            /\ \A k \in {2, 4, 6, 8} : s[k] = "-"
         THEN <<"<UUID>">> \o SubUUID(SubSeq(s, 10, Len(s)))
         ELSE <<Head(s)>> \o SubUUID(Tail(s))

SubTokens(s, matched, repl) ==
    [i \in 1..Len(s) |-> IF s[i] \in matched THEN repl ELSE s[i]]

\* the masks applied with the integers first
normalize_message_numbers_first(message) ==
    LET n1 == SubTokens(message, NumberTokens, "<NUM>")
        n2 == SubIP(n1)
        n3 == SubUUID(n2)
    IN  SubTokens(n3, HexTokens, "<HEX>")

normalize_message(message) ==
    LET n1 == SubIP(message)
        n2 == SubUUID(n1)
        n3 == SubTokens(n2, HexTokens, "<HEX>")
    IN  SubTokens(n3, NumberTokens, "<NUM>")

\* path.split("?", 1)[0]
BeforeQuery(path) ==
    IF \E i \in 1..Len(path) : path[i] = "?"
    THEN SubSeq(path, 1, (CHOOSE i \in 1..Len(path) :
                            /\ path[i] = "?"
                            /\ \A j \in 1..(i - 1) : path[j] # "?") - 1)
    ELSE path

normalize_path(path) ==
    LET clean == BeforeQuery(path)
        hexed == SubTokens(clean, PathHexTokens, "<HEX>")
    IN  SubTokens(hexed, NumberTokens, "<NUM>")

----------------------------------------------------------------------------
(* domain/models.py: LogEvent (the fields the detectors read) *)

Upper(m) ==
    CASE m = "get" -> "GET"
      [] m = "post" -> "POST"
      [] OTHER -> m

EvItem123 == [method |-> Some("GET"), status |-> Some(200),
              path |-> Some(<<"/", "items", "/", "123", "?", "debug", "=", "1">>),
              message |-> <<"GET", " ", "/", "items", "/", "123">>]
EvItem77 == [method |-> Some("get"), status |-> Some(204),
             path |-> Some(<<"/", "items", "/", "77">>),
             message |-> <<"get", " ", "/", "items", "/", "77">>]
EvNoPath == [method |-> None, status |-> None,
             path |-> None,
             message |-> <<"upstream", " ", "10", ".", "0", ".", "0", ".", "1", " ", "0x1f", " ", "42">>]

SampleEvents == {EvItem123, EvItem77, EvNoPath}
\* the events served after training: one whose template a training event can
\* share without being that event, one whose template comes from its message
ServedEvents == {EvItem77, EvNoPath}

----------------------------------------------------------------------------
(* infrastructure/models/baseline.py *)

StatusClass(status) ==
    IF TruthyInt(status) THEN status[1] \div 100 ELSE 0

_event_template(event) ==
    LET method == Upper(IF TruthyAtom(event.method) THEN event.method[1] ELSE "UNKNOWN")
        status_class == StatusClass(event.status)
        base0 == normalize_path(IF TruthyStr(event.path) THEN event.path[1] ELSE <<>>)
        base == IF base0 = <<>> THEN normalize_message(event.message) ELSE base0
    IN  <<method, status_class, base>>

\* collections.Counter(templates)
Counter(templates) ==
    [t \in Range(templates) |->
        Cardinality({i \in 1..Len(templates) : templates[i] = t})]

\* Counter.get(template, 0)
CounterGet(counts, t) == IF t \in DOMAIN counts THEN counts[t] ELSE 0

RECURSIVE SumOver(_, _)
SumOver(f, S) ==
    IF S = {} THEN 0
    ELSE LET x == CHOOSE y \in S : TRUE IN f[x] + SumOver(f, S \ {x})

MaxOverAsLen(f) == Cardinality(DOMAIN f)

\* max(values, default=0)
MaxOver(f) ==
    IF DOMAIN f = {} THEN 0
    ELSE LET x == CHOOSE y \in DOMAIN f : \A z \in DOMAIN f : f[z] <= f[y] IN f[x]

BaselineNew(model_version) ==
    [kind |-> "baseline",
     template_counts |-> << >>,
     total |-> 0,
     max_count |-> 0,
     model_version |-> model_version]

\* train that adds the batch to the counts already held
BaselineTrainIncremental(self, events) ==
    LET templates == [i \in 1..Len(events) |-> _event_template(events[i])]
        added == Counter(templates)
        counts == [t \in DOMAIN self.template_counts \cup DOMAIN added |->
                      CounterGet(self.template_counts, t) + CounterGet(added, t)]
    IN  [self EXCEPT !.template_counts = counts,
                     !.total = SumOver(counts, DOMAIN counts),
                     !.max_count = MaxOver(counts)]

BaselineTrain(self, events) ==
    LET templates == [i \in 1..Len(events) |-> _event_template(events[i])]
        counts == Counter(templates)
    IN  [self EXCEPT !.template_counts = counts,
                     !.total = SumOver(counts, DOMAIN counts),
                     !.max_count = MaxOver(counts)]

BaselineScoreOneByTotal(self, event) ==
    LET count == CounterGet(self.template_counts, _event_template(event))
    IN  IF self.max_count = 0 THEN One
        ELSE FSub(One, Frac(count, self.total))

BaselineScoreOne(self, event) ==
    LET count == CounterGet(self.template_counts, _event_template(event))
    IN  IF self.max_count = 0 THEN One
        ELSE FSub(One, Frac(count, self.max_count))

BaselineScore(self, events) ==
    [i \in 1..Len(events) |-> BaselineScoreOne(self, events[i])]

BaselinePredictStrict(self, events, threshold) ==
    LET scores == BaselineScore(self, events)
    IN  [i \in 1..Len(events) |->
            [event |-> events[i],
             score |-> scores[i],
             is_anomaly |-> FLt(threshold, scores[i]),
             model_version |-> self.model_version]]

BaselinePredict(self, events, threshold) ==
    LET scores == BaselineScore(self, events)
    IN  [i \in 1..Len(events) |->
            [event |-> events[i],
             score |-> scores[i],
             is_anomaly |-> FGeq(scores[i], threshold),
             model_version |-> self.model_version]]

----------------------------------------------------------------------------
(* infrastructure/models/isolation_forest.py *)

\* The fitted third-party model is opaque: `fit` names which decision function
\* the library learned (0 = not fitted); the function itself is some fixed
\* integer-valued function of the event's feature vector.
decision_function(fit, event) ==
    LET f == StatusClass(event.status)
             + (IF TruthyStr(event.path) THEN Len(event.path[1]) ELSE 0)
    IN  ((f * fit + fit) % 7) - 3

IForestNew(model_version) ==
    [kind |-> "iforest",
     fit |-> 0,
     contamination |-> Frac(5, 100),
     score_min |-> None,
     score_max |-> None,
     model_version |-> model_version]

MinOfSeq(s) == CHOOSE x \in Range(s) : \A y \in Range(s) : x <= y
MaxOfSeq(s) == CHOOSE x \in Range(s) : \A y \in Range(s) : x >= y

IForestRaw(self, events) ==
    [i \in 1..Len(events) |-> -decision_function(self.fit, events[i])]

\* train with the library having learned decision function `fit`
IForestTrain(self, events, fit) ==
    LET fitted == [self EXCEPT !.fit = fit]
        raw_scores == IForestRaw(fitted, events)
    IN  [fitted EXCEPT !.score_min = Some(MinOfSeq(raw_scores)),
                       !.score_max = Some(MaxOfSeq(raw_scores))]

\* a rescaling without the clamp to [0, 1]
_normalize_score_unclamped(score, score_min, score_max) ==
    IF score_min = None \/ score_max = None THEN FInt(score)
    ELSE IF score_max[1] - score_min[1] = 0 THEN Zero
    ELSE Frac(score - score_min[1], score_max[1] - score_min[1])

_normalize_score(score, score_min, score_max) ==
    IF score_min = None \/ score_max = None THEN FInt(score)
    ELSE IF score_max[1] - score_min[1] = 0 THEN Zero
    ELSE LET normalized == Frac(score - score_min[1], score_max[1] - score_min[1])
         IN  IF FLt(normalized, Zero) THEN Zero
             ELSE IF FLt(One, normalized) THEN One
             ELSE normalized

IForestScore(self, events) ==
    LET raw_scores == IForestRaw(self, events)
    IN  [i \in 1..Len(events) |->
            _normalize_score(raw_scores[i], self.score_min, self.score_max)]

IForestPredict(self, events, threshold) ==
    LET scores == IForestScore(self, events)
    IN  [i \in 1..Len(events) |->
            [event |-> events[i],
             score |-> scores[i],
             is_anomaly |-> FGeq(scores[i], threshold),
             model_version |-> self.model_version]]

----------------------------------------------------------------------------
(* application/model.py: the IAnomalyDetector contract, dispatched on the variant *)

DetScore(self, events) ==
    IF self.kind = "baseline" THEN BaselineScore(self, events)
    ELSE IForestScore(self, events)

DetPredict(self, events, threshold) ==
    IF self.kind = "baseline" THEN BaselinePredict(self, events, threshold)
    ELSE IForestPredict(self, events, threshold)

\* the third-party model can be fitted on, and can score, what it is given
CanTrain(self, events) == self.kind = "baseline" \/ Len(events) > 0
CanScore(self) == self.kind = "baseline" \/ self.fit # 0

----------------------------------------------------------------------------
(* Detector specification: construct, train, predict on one instance *)

Thresholds == {Zero, Frac(1, 2), One}
Fits == {1, 2}
TrainBatches == SeqsUpTo(SampleEvents, MaxTrain)
ScoreBatches == SeqsUpTo(ServedEvents, MaxScore)

\* `replaced`: for a train, the number of events the instance held from its
\* earlier train when this one began
NoCall == [op |-> "none", events |-> <<>>, threshold |-> Zero,
           raised |-> FALSE, scores |-> <<>>, results |-> <<>>, replaced |-> 0]

NoRegCall == [op |-> "none", status |-> "", exc |-> "", why |-> "",
              detector |-> <<>>, metadata |-> <<>>]

NoIngCall == [op |-> "none", lines |-> <<>>, fmt |-> "", status |-> "", exc |-> "",
              why |-> "", at |-> 0, events |-> <<>>, results |-> <<>>,
              predicted |-> FALSE, saved |-> FALSE, http |-> 0, received |-> 0]

\* the threads that may call score / predict on one instance
Threads == {1, 2}

\* a thread that has not called: `i` is the index of the event the loop of
\* score handles next, `overlapped` whether another call was in flight when
\* this one began
IdleCall == [pc |-> "idle", events |-> <<>>, threshold |-> Zero, i |-> 0,
             scores |-> <<>>, results |-> <<>>, overlapped |-> FALSE]
NoCalls == [t \in Threads |-> IdleCall]

\* no line handed to a parser
NoPayload == [fmt |-> "", data |-> << >>]
ParseIdle ==
    /\ lineFields = NoPayload
    /\ lineEvent = <<>>

\* no save in progress
SaveIdle ==
    /\ savePc = "idle"
    /\ saving = <<>>

\* a process that has not started serving
IngIdle ==
    /\ service = <<>>
    /\ storage = <<>>
    /\ ingOut = NoIngCall
    /\ calls = NoCalls
    /\ ParseIdle

DetInit ==
    /\ detector = BaselineNew("baseline")
    /\ detOut = NoCall
    /\ trainedOn = << >>
    /\ now = 0
    /\ fs = << >>
    /\ regOut = NoRegCall
    /\ lastSaved = <<>>
    /\ prevSaved = <<>>
    /\ nSaves = 0
    /\ SaveIdle
    /\ IngIdle

Construct(kind) ==
    /\ detector' = IF kind = "baseline" THEN BaselineNew("baseline")
                   ELSE IForestNew("iforest")
    /\ detOut' = [NoCall EXCEPT !.op = "new"]
    /\ trainedOn' = << >>
    /\ UNCHANGED <<regVars, saveVars, ingVars, serveVars, parseVars>>

TrainBaseline(events) ==
    /\ detector.kind = "baseline"
    /\ detector' = BaselineTrain(detector, events)
    /\ detOut' = [NoCall EXCEPT !.op = "train", !.replaced = detector.total]
    /\ trainedOn' = Counter(events)
    /\ UNCHANGED <<regVars, saveVars, ingVars, serveVars, parseVars>>

TrainIForest(events, fit) ==
    /\ detector.kind = "iforest"
    /\ detector' = IF CanTrain(detector, events)
                   THEN IForestTrain(detector, events, fit)
                   ELSE detector
    /\ detOut' = [NoCall EXCEPT !.op = "train", !.raised = ~CanTrain(detector, events)]
    /\ trainedOn' = IF CanTrain(detector, events) THEN Counter(events) ELSE trainedOn
    /\ UNCHANGED <<regVars, saveVars, ingVars, serveVars, parseVars>>

Predict(events, threshold) ==
    /\ detOut' = IF ~CanScore(detector)
                 THEN [NoCall EXCEPT !.op = "predict", !.events = events,
                                     !.threshold = threshold, !.raised = TRUE]
                 ELSE [NoCall EXCEPT !.op = "predict", !.events = events,
                                     !.threshold = threshold,
                                     !.scores = DetScore(detector, events),
                                     !.results = DetPredict(detector, events, threshold)]
    /\ UNCHANGED <<detector, trainedOn>>
    /\ UNCHANGED <<regVars, saveVars, ingVars, serveVars, parseVars>>

DetNext ==
    \/ \E kind \in {"baseline", "iforest"} : Construct(kind)
    \/ \E events \in TrainBatches : TrainBaseline(events)
    \/ \E events \in TrainBatches, fit \in Fits : TrainIForest(events, fit)
    \/ \E events \in ScoreBatches, threshold \in Thresholds : Predict(events, threshold)

SpecDet == DetInit /\ [][DetNext]_vars


----------------------------------------------------------------------------
(* application/features.py: FeatureExtractor.feature_names *)

feature_names ==
    <<"status_code", "status_class", "method_code", "path_length", "path_depth",
      "path_tokens", "has_query", "is_static", "bytes_log1p", "request_time_log1p",
      "referrer_hash", "user_agent_hash", "ip_hash", "hour", "hour_sin", "hour_cos",
      "weekday", "is_weekend", "has_user", "user_length", "message_length",
      "suspicious_path", "sql_keyword", "bot_ua", "path_template_hash">>

----------------------------------------------------------------------------
(* application/training.py *)

\* str.lower on the model_type selectors
Lower(s) ==
    CASE s = "Baseline" -> "baseline"
      [] s = "BASELINE" -> "baseline"
      [] s = "IForest" -> "iforest"
      [] s = "Isolation_Forest" -> "isolation_forest"
      [] s = "XGBoost" -> "xgboost"
      [] s = "JSONL" -> "jsonl"
      [] s = "Plain" -> "plain"
      [] s = "XML" -> "xml"
      [] OTHER -> s

RemoveAt(s, i) == SubSeq(s, 1, i - 1) \o SubSeq(s, i + 1, Len(s))

\* the ascending sort np.quantile performs
RECURSIVE SortFracs(_)
SortFracs(s) ==
    IF s = <<>> THEN <<>>
    ELSE LET i == CHOOSE k \in 1..Len(s) : \A j \in 1..Len(s) : FGeq(s[j], s[k])
         IN  <<s[i]>> \o SortFracs(RemoveAt(s, i))

RECURSIVE SumFracs(_)
SumFracs(s) == IF s = <<>> THEN Zero ELSE FAdd(Head(s), SumFracs(Tail(s)))

\* np.mean
Mean(s) == FDiv(SumFracs(s), FInt(Len(s)))

\* np.std, held as its square (the variance): the root is not rational
StdSquared(s) ==
    LET m == Mean(s)
    IN  Mean([i \in 1..Len(s) |-> FMul(FSub(s[i], m), FSub(s[i], m))])

\* np.quantile(scores, q), linear interpolation between the two nearest ranks
Quantile(scores, q) ==
    LET a == SortFracs(scores)
        n == Len(a)
        pos == FMul(q, FInt(n - 1))
        lo == pos.n \div pos.d
        hi == IF lo + 1 > n - 1 THEN n - 1 ELSE lo + 1
        g == FSub(pos, FInt(lo))
    IN  FAdd(a[lo + 1], FMul(g, FSub(a[hi + 1], a[lo + 1])))

\* a calibration that reports the quantile but returns the median
_calibrate_threshold_median(scores, model_type, det) ==
    IF scores = <<>> THEN [threshold |-> Zero, quantile |-> Frac(95, 100)]
    ELSE LET quantile == IF model_type = "baseline" THEN Frac(95, 100)
                         ELSE FSub(One, det.contamination)
         IN  [threshold |-> Quantile(scores, Frac(1, 2)), quantile |-> quantile]

\* a calibration that returns the quantile as a percentage
_calibrate_threshold_percent(scores, model_type, det) ==
    IF scores = <<>> THEN [threshold |-> Zero, quantile |-> Frac(95, 100)]
    ELSE LET quantile == IF model_type = "baseline" THEN Frac(95, 100)
                         ELSE FSub(One, det.contamination)
         IN  [threshold |-> FMul(FInt(100), Quantile(scores, quantile)),
              quantile |-> quantile]

_calibrate_threshold(scores, model_type, det) ==
    IF scores = <<>> THEN [threshold |-> Zero, quantile |-> Frac(95, 100)]
    ELSE LET quantile == IF model_type = "baseline" THEN Frac(95, 100)
                         ELSE FSub(One, det.contamination)
         IN  [threshold |-> Quantile(scores, quantile), quantile |-> quantile]

\* a selector test that lets every name through to the external variant
SupportedModelTypeAny(model_type) == model_type = Lower(model_type)

SupportedModelType(model_type) ==
    model_type \in {"baseline", "isolation_forest", "iforest"}

\* train_model up to, not including, registry.save: the trained detector, its
\* scores on the training batch and the training metrics
TrainAndCalibrate(events, model_type, fit) ==
    LET Outcome(det, scores, cal) ==
            [detector |-> det,
             scores |-> scores,
             train_metrics |->
                [score_mean |-> IF scores # <<>> THEN Mean(scores) ELSE Zero,
                 score_std |-> IF scores # <<>> THEN StdSquared(scores) ELSE Zero,
                 threshold |-> cal.threshold,
                 threshold_quantile |-> cal.quantile]]
        Calibrated(det, scores) ==
            Outcome(det, scores, _calibrate_threshold(scores, model_type, det))
        Scored(det) == Calibrated(det, DetScore(det, events))
    IN  Scored(IF model_type = "baseline"
               THEN BaselineTrain(BaselineNew("baseline"), events)
               ELSE IForestTrain(IForestNew("iforest"), events, fit))

----------------------------------------------------------------------------
(* The artifact directory: a map from path to file content.  A path is        *)
(* <<directory, file name>>; open(path, "w") creates or truncates the file,   *)
(* the dump and close that follow give it its content.                        *)

BaseDir == <<"", 0>>
LatestPath == <<BaseDir, "latest.json">>

EmptyFile == [full |-> FALSE, data |-> <<>>]
FullFile(data) == [full |-> TRUE, data |-> data]

Exists(f, path) == path \in DOMAIN f

Put(f, path, content) ==
    [p \in DOMAIN f \cup {path} |-> IF p = path THEN content ELSE f[p]]

OpenW(f, path) == Put(f, path, EmptyFile)
DumpClose(f, path, data) == Put(f, path, FullFile(data))

\* dict.get(key) and dict.get(key, default) on a decoded JSON object
Get(rec, key) == IF key \in DOMAIN rec THEN Some(rec[key]) ELSE None
GetOr(rec, key, default) == IF key \in DOMAIN rec THEN rec[key] ELSE default

Raised(exc, why) ==
    [status |-> "raised", exc |-> exc, why |-> why, detector |-> None, metadata |-> None]
Loaded(det) ==
    [status |-> "ok", exc |-> "", why |-> "", detector |-> Some(det), metadata |-> None]

----------------------------------------------------------------------------
(* save / load of the two detectors *)

ArtifactName(det) ==
    IF det.kind = "baseline" THEN "baseline.json" ELSE "iforest.joblib"

\* a payload written without the total
ArtifactPayloadNoTotal(det) ==
    IF det.kind = "baseline"
    THEN [template_counts |-> det.template_counts,
          max_count |-> det.max_count,
          model_version |-> det.model_version]
    ELSE [model |-> [fit |-> det.fit, contamination |-> det.contamination],
          score_min |-> det.score_min,
          score_max |-> det.score_max,
          model_version |-> det.model_version]

ArtifactPayload(det) ==
    IF det.kind = "baseline"
    THEN [template_counts |-> det.template_counts,
          total |-> det.total,
          max_count |-> det.max_count,
          model_version |-> det.model_version]
    ELSE [model |-> [fit |-> det.fit, contamination |-> det.contamination],
          score_min |-> det.score_min,
          score_max |-> det.score_max,
          model_version |-> det.model_version]

DetSaveOpen(f, det, dir) == OpenW(f, <<dir, ArtifactName(det)>>)
DetSaveDump(f, det, dir) == DumpClose(f, <<dir, ArtifactName(det)>>, ArtifactPayload(det))
DetSave(f, det, dir) == DetSaveDump(DetSaveOpen(f, det, dir), det, dir)

BaselineFromPayloadNoMax(payload) ==
    [BaselineNew(GetOr(payload, "model_version", "baseline")) EXCEPT
        !.template_counts = GetOr(payload, "template_counts", << >>),
        !.total = GetOr(payload, "total", 0)]

BaselineFromPayload(payload) ==
    [BaselineNew(GetOr(payload, "model_version", "baseline")) EXCEPT
        !.template_counts = GetOr(payload, "template_counts", << >>),
        !.total = GetOr(payload, "total", 0),
        !.max_count = GetOr(payload, "max_count", 0)]

BaselineLoad(f, dir) ==
    LET path == <<dir, "baseline.json">>
    IN  IF ~Exists(f, path) THEN Raised("FileNotFoundError", "no_artifact")
        ELSE IF ~f[path].full THEN Raised("ValueError", "json_decode")
        ELSE Loaded(BaselineFromPayload(f[path].data))

IForestFromPayload(payload) ==
    [IForestNew(GetOr(payload, "model_version", "iforest")) EXCEPT
        !.fit = payload.model.fit,
        !.contamination = payload.model.contamination,
        !.score_min = GetOr(payload, "score_min", None),
        !.score_max = GetOr(payload, "score_max", None)]

IForestLoad(f, dir) ==
    LET path == <<dir, "iforest.joblib">>
    IN  IF ~Exists(f, path) THEN Raised("FileNotFoundError", "no_artifact")
        ELSE IF ~f[path].full THEN Raised("EOFError", "joblib_decode")
        ELSE Loaded(IForestFromPayload(f[path].data))

----------------------------------------------------------------------------
(* infrastructure/registry.py *)

\* datetime.strftime("%Y%m%d%H%M%S"): the clock cut down to whole seconds
strftime(t) == t \div 2

ModelDir(model_type, timestamp) == <<model_type, timestamp>>

Metadata(model_type, timestamp, trained_at, train_metrics) ==
    [model_type |-> model_type,
     version |-> timestamp,
     trained_at |-> trained_at,
     feature_names |-> feature_names,
     train_metrics |-> train_metrics,
     path |-> ModelDir(model_type, timestamp)]

\* ModelRegistry.save run to completion at clock t: the files after it and
\* the metadata it returns
RegistrySave(f, det, model_type, train_metrics, t) ==
    LET timestamp == strftime(t)
        model_dir == ModelDir(model_type, timestamp)
        f1 == DetSave(f, det, model_dir)
        metadata == Metadata(model_type, timestamp, t, train_metrics)
        f2 == DumpClose(OpenW(f1, <<model_dir, "metadata.json">>),
                        <<model_dir, "metadata.json">>, metadata)
        f3 == DumpClose(OpenW(f2, LatestPath), LatestPath, metadata)
    IN  [fs |-> f3, metadata |-> metadata]

_load_detector(f, model_type, path) ==
    LET mt == Lower(model_type)
    IN  IF mt = "baseline" THEN BaselineLoad(f, path)
        ELSE IF mt \in {"isolation_forest", "iforest"} THEN IForestLoad(f, path)
        ELSE Raised("ValueError", "unsupported_model_type")

load_latest_path_unchecked(f) ==
    IF ~Exists(f, LatestPath) THEN Raised("FileNotFoundError", "no_latest")
    ELSE IF ~f[LatestPath].full THEN Raised("ValueError", "json_decode")
    ELSE LET metadata == f[LatestPath].data
             model_type == Get(metadata, "model_type")
             model_path == Get(metadata, "path")
         IN  IF ~TruthyAtom(model_type)
             THEN Raised("ValueError", "invalid_metadata")
             ELSE IF ~TruthyStr(model_path) THEN Raised("TypeError", "path_is_none")
             ELSE LET got == _load_detector(f, model_type[1], model_path[1])
                  IN  IF got.status = "ok"
                      THEN [got EXCEPT !.metadata = Some(metadata)]
                      ELSE got

load_latest(f) ==
    IF ~Exists(f, LatestPath) THEN Raised("FileNotFoundError", "no_latest")
    ELSE IF ~f[LatestPath].full THEN Raised("ValueError", "json_decode")
    ELSE LET metadata == f[LatestPath].data
             model_type == Get(metadata, "model_type")
             model_path == Get(metadata, "path")
         IN  IF ~TruthyAtom(model_type) \/ ~TruthyStr(model_path)
             THEN Raised("ValueError", "invalid_metadata")
             ELSE LET got == _load_detector(f, model_type[1], model_path[1])
                  IN  IF got.status = "ok"
                      THEN [got EXCEPT !.metadata = Some(metadata)]
                      ELSE got

----------------------------------------------------------------------------
(* Registry specification: train_model and load_latest, one call at a time,  *)
(* on an artifact directory that may already hold a latest record written    *)
(* earlier.                                                                  *)

ModelTypeSelectors ==
    {"baseline", "Baseline", "iforest", "isolation_forest", "XGBoost"}

RegBatches ==
    {<<>>, <<EvItem123, EvNoPath, EvItem77>>}

\* what an artifact directory can hold before this process first touches it
OldDir == ModelDir("baseline", -1)
OldDetector == BaselineTrain(BaselineNew("baseline"), <<EvItem123>>)
OldMetadata ==
    Metadata("baseline", -1, -2, TrainAndCalibrate(<<EvItem123>>, "baseline", 1).train_metrics)

\* the old latest record: complete, with some fields missing, or with a
\* model_type or path that names nothing loadable
OldLatestRecords ==
    LET Variants(md) ==
            {[k \in keys |-> md[k]] : keys \in SUBSET (DOMAIN md)}
            \cup {[md EXCEPT !.model_type = ""],
                  [md EXCEPT !.model_type = "XGBoost"],
                  [md EXCEPT !.model_type = "iforest"],
                  [md EXCEPT !.model_type = "Baseline"],
                  [md EXCEPT !.path = <<>>],
                  [md EXCEPT !.path = ModelDir("baseline", -2)]}
    IN  Variants(OldMetadata)

OldVersionFiles ==
    DumpClose(DetSave(<< >>, OldDetector, OldDir), <<OldDir, "metadata.json">>, OldMetadata)

OldStores ==
    {<< >>} \cup {DumpClose(OldVersionFiles, LatestPath, m) : m \in OldLatestRecords}

DetIdle ==
    /\ detector = BaselineNew("baseline")
    /\ detOut = NoCall
    /\ trainedOn = << >>

RegIdle ==
    /\ now = 0
    /\ regOut = NoRegCall
    /\ lastSaved = None
    /\ prevSaved = None
    /\ nSaves = 0
    /\ SaveIdle
    /\ IngIdle

\* the directory is new, or holds one complete earlier version
RegInit ==
    /\ DetIdle
    /\ RegIdle
    /\ fs \in {<< >>, DumpClose(OldVersionFiles, LatestPath, OldMetadata)}

Tick ==
    /\ now < MaxClock
    /\ now' = now + 1
    /\ UNCHANGED <<fs, regOut, lastSaved, prevSaved, nSaves, detVars, saveVars, ingVars, serveVars, parseVars>>

\* train_model raising before registry.save: an unsupported model_type, or
\* the third-party model given an empty batch to fit
TrainModelRaises(events, selector) ==
    /\ \/ ~SupportedModelType(Lower(selector))
       \/ (Lower(selector) # "baseline" /\ events = <<>>)
    /\ regOut' = [op |-> "train_model", selector |-> selector] @@
                  Raised("ValueError",
                         IF ~SupportedModelType(Lower(selector))
                         THEN "unsupported_model_type" ELSE "train")
    /\ UNCHANGED <<now, fs, lastSaved, prevSaved, nSaves, detVars, saveVars, ingVars, serveVars, parseVars>>

TrainModel(events, selector, fit) ==
    /\ nSaves < MaxSaves
    /\ SupportedModelType(Lower(selector))
    /\ Lower(selector) = "baseline" \/ events # <<>>
    /\ \E model_type \in {Lower(selector)} :
       \E trained \in {TrainAndCalibrate(events, model_type, fit)} :
       \E saved \in {RegistrySave(fs, trained.detector, model_type,
                                  trained.train_metrics, now)} :
           /\ fs' = saved.fs
           /\ regOut' = [op |-> "train_model", selector |-> selector, status |-> "ok",
                         exc |-> "", why |-> "",
                         detector |-> None, metadata |-> Some(saved.metadata)]
           /\ lastSaved' = Some([selector |-> selector, events |-> events,
                                 scores |-> trained.scores, metadata |-> saved.metadata])
           /\ prevSaved' = IF lastSaved = None THEN None
                           ELSE Some(lastSaved[1].metadata.version)
    /\ nSaves' = nSaves + 1
    /\ UNCHANGED <<now, detVars, saveVars, ingVars, serveVars, parseVars>>

LoadLatest ==
    /\ regOut' = [op |-> "load"] @@ load_latest(fs)
    /\ UNCHANGED <<now, fs, lastSaved, prevSaved, nSaves, detVars, saveVars, ingVars, serveVars, parseVars>>

RegNext ==
    \/ Tick
    \/ \E events \in RegBatches, selector \in ModelTypeSelectors :
            TrainModelRaises(events, selector)
    \/ \E events \in RegBatches, selector \in ModelTypeSelectors :
            TrainModel(events, selector, 1)
    \/ LoadLatest

SpecReg == RegInit /\ [][RegNext]_vars

\* load_latest on whatever an earlier writer left behind
LoadInit ==
    /\ DetIdle
    /\ RegIdle
    /\ fs \in OldStores

LoadNext ==
    \/ Tick
    \/ LoadLatest

SpecLoad == LoadInit /\ [][LoadNext]_vars

----------------------------------------------------------------------------
(* Claims about the detectors *)

Returned(op) == detOut.op = op /\ ~detOut.raised

\* number of events of the bag `batch`
BatchSize(batch) == SumOver(batch, DOMAIN batch)

\* number of events of the bag `batch` whose template is t
TemplateCount(batch, t) ==
    SumOver(batch, {e \in DOMAIN batch : _event_template(e) = t})

\* the largest TemplateCount over the templates of `batch` (0 for an empty batch)
TemplateMax(batch) ==
    IF DOMAIN batch = {} THEN 0
    ELSE CHOOSE m \in 1..BatchSize(batch) :
            /\ \E e \in DOMAIN batch : TemplateCount(batch, _event_template(e)) = m
            /\ \A e \in DOMAIN batch : TemplateCount(batch, _event_template(e)) <= m

C2_BaselineScoreFormula ==
    (Returned("predict") /\ detector.kind = "baseline") =>
        \A i \in 1..Len(detOut.events) :
            LET t == _event_template(detOut.events[i])
                c == TemplateCount(trainedOn, t)
                m == TemplateMax(trainedOn)
            IN  /\ detector.max_count = m
                /\ m = 0 => detOut.scores[i] = One
                /\ m > 0 => detOut.scores[i].n * m = (m - c) * detOut.scores[i].d
                /\ (m > 0 /\ c = 0) => detOut.scores[i] = One

\* a Baseline trained on three events scores a template seen once out of max 2
C2_Witness ==
    /\ Returned("predict")
    /\ detector.kind = "baseline"
    /\ BatchSize(trainedOn) = 3
    /\ \E i \in 1..Len(detOut.events) :
          /\ TemplateCount(trainedOn, _event_template(detOut.events[i])) = 1
          /\ TemplateMax(trainedOn) = 2
          /\ detOut.scores[i] = Frac(1, 2)

\* C3: for a Baseline trained on a non-empty batch, an event of the most
\* frequent training template scores 0, an event of a never-seen template
\* scores 1, and every unseen-template score is strictly above every
\* seen-template score.
C3_UnseenRanksHighest ==
    (Returned("predict") /\ detector.kind = "baseline" /\ BatchSize(trainedOn) > 0) =>
        \A i \in 1..Len(detOut.events) :
            LET ci == TemplateCount(trainedOn, _event_template(detOut.events[i]))
            IN  /\ ci = TemplateMax(trainedOn) => detOut.scores[i] = Zero
                /\ ci = 0 => detOut.scores[i] = One
                /\ ci = 0 =>
                      \A j \in 1..Len(detOut.events) :
                          TemplateCount(trainedOn, _event_template(detOut.events[j])) >= 1
                              => /\ FGeq(detOut.scores[i], detOut.scores[j])
                                 /\ FLt(detOut.scores[j], detOut.scores[i])

\* trained on N = 3 copies of one template; the scored batch holds that
\* template and a never-seen one
C3_Witness ==
    /\ Returned("predict")
    /\ detector.kind = "baseline"
    /\ BatchSize(trainedOn) = 3
    /\ TemplateMax(trainedOn) = 3
    /\ \E i, j \in 1..Len(detOut.events) :
          /\ detOut.scores[i] = Zero
          /\ detOut.scores[j] = One
          /\ TemplateCount(trainedOn, _event_template(detOut.events[j])) = 0

----------------------------------------------------------------------------
(* ModelRegistry.save one file operation at a time, with load_latest running
   beside it: train_model computes the detector, then save opens and writes
   the artifact, metadata.json and latest.json in that order.  open(path, "w")
   leaves the file empty until the dump is flushed at close. *)

SaveBatches == {<<EvItem123, EvNoPath, EvItem77>>}
SaveSelectors == {"baseline", "iforest"}

SaveInit ==
    /\ DetIdle
    /\ RegIdle
    /\ fs \in {<< >>, DumpClose(OldVersionFiles, LatestPath, OldMetadata)}

\* train_model up to detector.save's open of the artifact file
SaveStart(events, selector) ==
    /\ savePc = "idle"
    /\ nSaves < MaxSaves
    /\ SupportedModelType(Lower(selector))
    /\ \E model_type \in {Lower(selector)}, timestamp \in {strftime(now)} :
       \E trained \in {TrainAndCalibrate(events, model_type, 1)} :
           /\ saving' = Some([selector |-> selector, events |-> events,
                              scores |-> trained.scores, detector |-> trained.detector,
                              model_type |-> model_type, timestamp |-> timestamp,
                              train_metrics |-> trained.train_metrics,
                              metadata |-> None])
           /\ fs' = DetSaveOpen(fs, trained.detector, ModelDir(model_type, timestamp))
    /\ savePc' = "artifact_open"
    /\ UNCHANGED <<now, regOut, lastSaved, prevSaved, nSaves, detVars, ingVars, serveVars, parseVars>>

SaveArtifactDump ==
    /\ savePc = "artifact_open"
    /\ fs' = DetSaveDump(fs, saving[1].detector,
                         ModelDir(saving[1].model_type, saving[1].timestamp))
    /\ savePc' = "artifact_written"
    /\ UNCHANGED <<now, regOut, lastSaved, prevSaved, nSaves, saving, detVars, ingVars, serveVars, parseVars>>

SaveMetadataOpen ==
    /\ savePc = "artifact_written"
    /\ LET metadata == Metadata(saving[1].model_type, saving[1].timestamp, now,
                                saving[1].train_metrics)
       IN  /\ saving' = Some([saving[1] EXCEPT !.metadata = Some(metadata)])
           /\ fs' = OpenW(fs, <<metadata.path, "metadata.json">>)
    /\ savePc' = "metadata_open"
    /\ UNCHANGED <<now, regOut, lastSaved, prevSaved, nSaves, detVars, ingVars, serveVars, parseVars>>

SaveMetadataDump ==
    /\ savePc = "metadata_open"
    /\ LET metadata == saving[1].metadata[1]
       IN  fs' = DumpClose(fs, <<metadata.path, "metadata.json">>, metadata)
    /\ savePc' = "metadata_written"
    /\ UNCHANGED <<now, regOut, lastSaved, prevSaved, nSaves, saving, detVars, ingVars, serveVars, parseVars>>

SaveLatestOpen ==
    /\ savePc = "metadata_written"
    /\ fs' = OpenW(fs, LatestPath)
    /\ savePc' = "latest_open"
    /\ UNCHANGED <<now, regOut, lastSaved, prevSaved, nSaves, saving, detVars, ingVars, serveVars, parseVars>>

\* the dump of latest.json, and train_model returning the metadata
SaveLatestDump ==
    /\ savePc = "latest_open"
    /\ LET metadata == saving[1].metadata[1]
       IN  /\ fs' = DumpClose(fs, LatestPath, metadata)
           /\ regOut' = [op |-> "train_model", selector |-> saving[1].selector,
                         status |-> "ok", exc |-> "", why |-> "",
                         detector |-> None, metadata |-> Some(metadata)]
           /\ lastSaved' = Some([selector |-> saving[1].selector,
                                 events |-> saving[1].events,
                                 scores |-> saving[1].scores, metadata |-> metadata])
           /\ prevSaved' = IF lastSaved = None THEN None
                           ELSE Some(lastSaved[1].metadata.version)
    /\ nSaves' = nSaves + 1
    /\ savePc' = "idle"
    /\ saving' = None
    /\ UNCHANGED <<now, detVars, ingVars, serveVars, parseVars>>

\* a save that stops where it is, between two file operations or between the
\* open and the dump of one file (the process ends, or the write raises
\* OSError); what it has written so far stays
SaveAbort ==
    /\ savePc # "idle"
    /\ regOut' = [op |-> "train_model", selector |-> saving[1].selector]
                    @@ Raised("OSError", savePc)
    /\ nSaves' = nSaves + 1
    /\ savePc' = "idle"
    /\ saving' = None
    /\ UNCHANGED <<now, fs, lastSaved, prevSaved, detVars, ingVars, serveVars, parseVars>>

SaveNext ==
    \/ Tick
    \/ SaveAbort
    \/ \E events \in SaveBatches, selector \in SaveSelectors : SaveStart(events, selector)
    \/ SaveArtifactDump
    \/ SaveMetadataOpen
    \/ SaveMetadataDump
    \/ SaveLatestOpen
    \/ SaveLatestDump
    \/ LoadLatest

SpecSave == SaveInit /\ [][SaveNext]_vars

----------------------------------------------------------------------------
(* application/parsers.py: a line is a sequence of tokens, each a whitespace
   character or a run of text holding no leading or trailing whitespace *)

Whitespace == {" ", "\t", "\n"}

JsonItem77 ==
    "{\"timestamp\":\"2026-01-15T10:01:00+00:00\",\"method\":\"get\",\"path\":\"/items/77\",\"status\":204}"
JsonNoPath ==
    "{\"@timestamp\":\"2026-01-15T10:01:00Z\",\"message\":\"upstream 10.0.0.1 0x1f 42\"}"
JsonArray == "[1]"
Plain123 ==
    "10.0.0.1 - - [15/Jan/2026:10:00:00 +0000] \"GET /items/123?debug=1 HTTP/1.1\" 200 512 \"-\" \"-\""

\* the event parse_plain_text builds from Plain123: the message is the request line
EvPlain123 == [method |-> Some("GET"), status |-> Some(200),
               path |-> Some(<<"/", "items", "/", "123", "?", "debug", "=", "1">>),
               message |-> <<"GET", " ", "/", "items", "/", "123", "?", "debug", "=", "1",
                             " ", "HTTP/1.1">>]

Parsed(event) == [status |-> "ok", exc |-> "", why |-> "", event |-> Some(event)]
ParseRaised(exc, why) == [status |-> "raised", exc |-> exc, why |-> why, event |-> None]

\* str.strip()
RECURSIVE LStrip(_)
LStrip(line) ==
    IF line # <<>> /\ Head(line) \in Whitespace THEN LStrip(Tail(line)) ELSE line

RECURSIVE RStrip(_)
RStrip(line) ==
    IF line # <<>> /\ line[Len(line)] \in Whitespace
    THEN RStrip(SubSeq(line, 1, Len(line) - 1))
    ELSE line

strip(line) == RStrip(LStrip(line))

\* json.loads, _normalize_payload and LogEvent.model_validate on a stripped line
parse_json_line(line) ==
    IF line = <<JsonItem77>> THEN Parsed(EvItem77)
    ELSE IF line = <<JsonNoPath>> THEN Parsed(EvNoPath)
    ELSE IF line = <<JsonArray>> THEN ParseRaised("TypeError", "payload_not_a_mapping")
    ELSE ParseRaised("ValueError", "json_decode")

\* the nginx access log pattern on a stripped line
parse_plain_text(line) ==
    IF line = <<Plain123>> THEN Parsed(EvPlain123)
    ELSE ParseRaised("ValueError", "no_pattern_match")

ParsedLines(events) ==
    [status |-> "ok", exc |-> "", why |-> "", at |-> 0, events |-> events]
LinesRaised(exc, why, at) ==
    [status |-> "raised", exc |-> exc, why |-> why, at |-> at, events |-> <<>>]

\* blank test of parse_lines without the strip before it
RECURSIVE ParseLoopUnstripped(_, _, _, _)
ParseLoopUnstripped(lines, fmt, i, events) ==
    IF i > Len(lines) THEN ParsedLines(events)
    ELSE LET line == lines[i]
         IN  IF line = <<>> THEN ParseLoopUnstripped(lines, fmt, i + 1, events)
             ELSE IF fmt \in {"jsonl", "plain"}
             THEN LET got == IF fmt = "jsonl" THEN parse_json_line(line)
                             ELSE parse_plain_text(line)
                  IN  IF got.status = "ok"
                      THEN ParseLoopUnstripped(lines, fmt, i + 1, Append(events, got.event[1]))
                      ELSE LinesRaised(got.exc, got.why, i)
             ELSE LinesRaised("ValueError", "unsupported_format", i)

\* the loop of parse_lines from line i on, `events` parsed so far
RECURSIVE ParseLoop(_, _, _, _)
ParseLoop(lines, fmt, i, events) ==
    IF i > Len(lines) THEN ParsedLines(events)
    ELSE LET line == strip(lines[i])
         IN  IF line = <<>> THEN ParseLoop(lines, fmt, i + 1, events)
             ELSE IF fmt = "jsonl"
             THEN LET got == parse_json_line(line)
                  IN  IF got.status = "ok"
                      THEN ParseLoop(lines, fmt, i + 1, Append(events, got.event[1]))
                      ELSE LinesRaised(got.exc, got.why, i)
             ELSE IF fmt = "plain"
             THEN LET got == parse_plain_text(line)
                  IN  IF got.status = "ok"
                      THEN ParseLoop(lines, fmt, i + 1, Append(events, got.event[1]))
                      ELSE LinesRaised(got.exc, got.why, i)
             ELSE LinesRaised("ValueError", "unsupported_format", i)

parse_lines_unstripped(lines, fmt) == ParseLoopUnstripped(lines, Lower(fmt), 1, <<>>)

parse_lines(lines, fmt) == ParseLoop(lines, Lower(fmt), 1, <<>>)

----------------------------------------------------------------------------
(* infrastructure/settings.py, infrastructure/storage.py, application/services.py,
   api/main.py *)

anomaly_threshold == Frac(1, 2)
baseline_threshold == Frac(85, 100)

\* one log_records row per verdict
LogRecord(result) ==
    [event |-> result.event,
     anomaly_score |-> result.score,
     is_anomaly |-> result.is_anomaly,
     model_version |-> result.model_version]

save_results(table, results) ==
    table \o [i \in 1..Len(results) |-> LogRecord(results[i])]

AnomalyService(loaded) == [detector |-> loaded.detector[1], metadata |-> loaded.metadata[1]]

\* decoded JSON values that are not numbers, kept with their kind: null, a str
NonNumbers == {[null |-> TRUE], [str |-> <<"high">>]}

\* isinstance(value, (int, float)): a number is a fraction
IsNumber(value) == DOMAIN value = {"n", "d"}

\* a threshold property that tests the calibrated value for truth
thresholdIfTruthy(self) ==
    LET train_metrics == GetOr(self.metadata, "train_metrics", << >>)
        calibrated == Get(train_metrics, "threshold")
    IN  IF calibrated # None /\ IsNumber(calibrated[1]) /\ calibrated[1] # Zero
        THEN calibrated[1]
        ELSE IF GetOr(self.metadata, "model_type", "") = "baseline" THEN baseline_threshold
        ELSE anomaly_threshold

\* AnomalyService.threshold (`train_metrics or {}`: a null train_metrics has
\* no key, as the empty one)
threshold(self) ==
    LET train_metrics == GetOr(self.metadata, "train_metrics", << >>)
        calibrated == Get(train_metrics, "threshold")
    IN  IF calibrated # None /\ IsNumber(calibrated[1]) THEN calibrated[1]
        ELSE IF GetOr(self.metadata, "model_type", "") = "baseline" THEN baseline_threshold
        ELSE anomaly_threshold

IngestOutcome(parsed, results, table, predicted, saved) ==
    [status |-> parsed.status, exc |-> parsed.exc, why |-> parsed.why, at |-> parsed.at,
     events |-> parsed.events, results |-> results, storage |-> table,
     predicted |-> predicted, saved |-> saved]

\* ingest that stores the verdicts of the lines before the one that failed
AnomalyServiceIngestPartial(self, table, lines, fmt) ==
    LET parsed == parse_lines(lines, fmt)
    IN  IF parsed.status = "raised"
        THEN LET before == parse_lines(SubSeq(lines, 1, parsed.at - 1), fmt)
                 results == DetPredict(self.detector, before.events, threshold(self))
             IN  IngestOutcome(parsed, <<>>, save_results(table, results), FALSE, FALSE)
        ELSE LET results == DetPredict(self.detector, parsed.events, threshold(self))
             IN  IngestOutcome(parsed, results, save_results(table, results), TRUE, TRUE)

\* AnomalyService.ingest: what it returns or raises, the table after it, and
\* whether it called predict and save_results
AnomalyServiceIngest(self, table, lines, fmt) ==
    LET parsed == parse_lines(lines, fmt)
    IN  IF parsed.status = "raised"
        THEN IngestOutcome(parsed, <<>>, table, FALSE, FALSE)
        ELSE LET results == DetPredict(self.detector, parsed.events, threshold(self))
             IN  IngestOutcome(parsed, results, save_results(table, results), TRUE, TRUE)

----------------------------------------------------------------------------
(* Ingest specification: a process starts on an artifact directory and a
   log_records table left by earlier runs, then takes one call: of
   parse_lines, of AnomalyService.ingest, or of POST /ingest. *)

Formats == {"jsonl", "JSONL", "plain", "xml"}

InputLines ==
    {<<" ">>, <<" ", JsonItem77, "\n">>, <<JsonNoPath>>, <<Plain123>>, <<JsonArray>>}

LineBatches == SeqsUpTo(InputLines, MaxLines)

ServedBatch == <<EvItem123, EvNoPath, EvItem77>>

\* the artifact directory after train_model(ServedBatch, model_type) at time t
TrainedStore(model_type, t) ==
    LET Saved(trained) ==
            RegistrySave(<< >>, trained.detector, model_type, trained.train_metrics, t).fs
    IN  Saved(TrainAndCalibrate(ServedBatch, model_type, 1))

\* a latest record written without train_metrics
UncalibratedStore ==
    LET Rewritten(f, record) ==
            DumpClose(f, LatestPath,
                      [k \in DOMAIN record \ {"train_metrics"} |-> record[k]])
        Uncalibrated(f) == Rewritten(f, f[LatestPath].data)
    IN  Uncalibrated(TrainedStore("baseline", -2))

ServedStores ==
    {<< >>, TrainedStore("baseline", -2), TrainedStore("iforest", -2), UncalibratedStore}

\* rows an earlier run stored
OldRows == save_results(<<>>, DetPredict(OldDetector, <<EvItem123, EvNoPath>>, Frac(1, 2)))

IngInit ==
    /\ DetIdle
    /\ now = 0
    /\ fs \in ServedStores
    /\ regOut = NoRegCall
    /\ lastSaved = None
    /\ prevSaved = None
    /\ nSaves = 0
    /\ SaveIdle
    /\ service = None
    /\ storage \in {<<>>, OldRows}
    /\ ingOut = NoIngCall
    /\ calls = NoCalls
    /\ ParseIdle

\* lifespan: build the service from the latest model; without one
\* (auto_train_on_startup is off) the process serves with no model
Lifespan ==
    /\ ingOut.op = "none"
    /\ service = None
    /\ LET loaded == load_latest(fs)
       IN  /\ loaded.status = "ok"
           /\ service' = Some(AnomalyService(loaded))
    /\ UNCHANGED <<storage, ingOut, detVars, regVars, saveVars, serveVars, parseVars>>

\* LogParser.parse_lines called directly (LogIngestor.ingest_file, the startup bootstrap)
ParseLines ==
    /\ ingOut.op = "none"
    /\ \E lines \in LineBatches, fmt \in Formats :
          \E parsed \in {parse_lines(lines, fmt)} :
              ingOut' = [NoIngCall EXCEPT !.op = "parse_lines", !.lines = lines, !.fmt = fmt,
                                          !.status = parsed.status, !.exc = parsed.exc,
                                          !.why = parsed.why, !.at = parsed.at,
                                          !.events = parsed.events]
    /\ UNCHANGED <<service, storage, detVars, regVars, saveVars, serveVars, parseVars>>

\* AnomalyService.ingest called directly on the built service
ServiceIngest ==
    /\ ingOut.op = "none"
    /\ service # None
    /\ \E lines \in LineBatches, fmt \in Formats :
          \E out \in {AnomalyServiceIngest(service[1], storage, lines, fmt)} :
              /\ ingOut' = [NoIngCall EXCEPT !.op = "ingest", !.lines = lines, !.fmt = fmt,
                                             !.status = out.status, !.exc = out.exc,
                                             !.why = out.why, !.at = out.at,
                                             !.events = out.events, !.results = out.results,
                                             !.predicted = out.predicted,
                                             !.saved = out.saved]
              /\ storage' = out.storage
    /\ UNCHANGED <<service, detVars, regVars, saveVars, serveVars, parseVars>>

\* the response of POST /ingest after AnomalyService.ingest returned or raised `out`
IngestResponse(request, out) ==
    LET called == [request EXCEPT !.status = out.status, !.exc = out.exc,
                                  !.why = out.why, !.at = out.at,
                                  !.events = out.events, !.results = out.results,
                                  !.predicted = out.predicted, !.saved = out.saved]
    IN  IF out.status = "raised"
        THEN [called EXCEPT !.http = IF out.exc = "ValueError" THEN 400 ELSE 500]
        ELSE [called EXCEPT !.http = 200, !.received = Len(out.results)]

\* POST /ingest: 422 when the body is not an IngestRequest, 503 without a
\* service, 400 on ValueError, 500 on any other exception, 200 with the
\* number of verdicts
PostIngest ==
    /\ ingOut.op = "none"
    /\ \E lines \in LineBatches, fmt \in Formats :
          \E request \in {[NoIngCall EXCEPT !.op = "post", !.lines = lines, !.fmt = fmt]} :
              IF fmt \notin {"jsonl", "plain"}
              THEN /\ ingOut' = [request EXCEPT !.http = 422]
                   /\ storage' = storage
              ELSE IF service = None
              THEN /\ ingOut' = [request EXCEPT !.http = 503]
                   /\ storage' = storage
              ELSE \E out \in {AnomalyServiceIngest(service[1], storage, lines, fmt)} :
                      /\ ingOut' = IngestResponse(request, out)
                      /\ storage' = out.storage
    /\ UNCHANGED <<service, detVars, regVars, saveVars, serveVars, parseVars>>

IngNext ==
    \/ Lifespan
    \/ ParseLines
    \/ ServiceIngest
    \/ PostIngest

SpecIngest == IngInit /\ [][IngNext]_vars

----------------------------------------------------------------------------
(* Claims about the registry *)

\* C7: after train_model with a supported selector (in any letter case) has
\* saved, load_latest returns a detector of the variant the selector names,
\* whose scores on the training batch are the scores train_model computed
\* before the save, and the metadata record that save returned.
C7_SaveLoadRoundTrip ==
    (regOut.op = "load" /\ lastSaved # None) =>
        LET s == lastSaved[1]
        IN  /\ regOut.status = "ok"
            /\ regOut.detector # None
            /\ regOut.detector[1].kind
                 = (IF Lower(s.selector) = "baseline" THEN "baseline" ELSE "iforest")
            /\ DetScore(regOut.detector[1], s.events) = s.scores
            /\ regOut.metadata = Some(s.metadata)

\* a load right after train_model("Baseline") on three events, two of one template
C7_Witness ==
    /\ regOut.op = "load"
    /\ regOut.status = "ok"
    /\ lastSaved # None
    /\ lastSaved[1].selector = "Baseline"
    /\ lastSaved[1].scores = <<Zero, Frac(1, 2), Zero>>

\* C8: of two consecutive completed saves on one registry, the second returns
\* a version strictly greater than the first.
C8_VersionStrictlyIncreases ==
    (lastSaved # None /\ prevSaved # None) =>
        lastSaved[1].metadata.version > prevSaved[1]

\* the fields of a ModelMetadata record
RequiredFields ==
    {"model_type", "version", "trained_at", "feature_names", "train_metrics", "path"}

Lacks(rec, key) ==
    \/ key \notin DOMAIN rec
    \/ key = "model_type" /\ rec[key] = ""
    \/ key = "path" /\ rec[key] = <<>>

\* what load_latest returns on the old store when it gets as far as the
\* variant's load: the old detector from the old directory, nothing else
VariantLoadOutcome(out, rec) ==
    LET mt == Lower(rec.model_type)
    IN  /\ mt \notin {"baseline", "isolation_forest", "iforest"} =>
              out.status = "raised" /\ out.exc = "ValueError" /\ out.why = "unsupported_model_type"
        /\ (mt = "baseline" /\ rec.path = OldDir) =>
              /\ out.status = "ok"
              /\ out.detector = Some(OldDetector)
              /\ out.metadata = Some(rec)
        /\ (mt = "baseline" /\ rec.path # OldDir) =>
              out.status = "raised" /\ out.exc = "FileNotFoundError" /\ out.why = "no_artifact"
        /\ mt \in {"isolation_forest", "iforest"} =>
              out.status = "raised" /\ out.exc = "FileNotFoundError" /\ out.why = "no_artifact"

\* C10 as stated: NoModelError without a latest pointer, InvalidMetadataError
\* when the latest record lacks any of the metadata fields, the variant's
\* load otherwise.
C10_AnyMissingFieldIsInvalid ==
    regOut.op = "load" =>
        /\ ~Exists(fs, LatestPath) =>
              regOut.status = "raised" /\ regOut.exc = "FileNotFoundError"
        /\ (Exists(fs, LatestPath)
              /\ \E key \in RequiredFields : Lacks(fs[LatestPath].data, key)) =>
              /\ regOut.status = "raised"
              /\ regOut.exc = "ValueError"
              /\ regOut.why = "invalid_metadata"
        /\ (Exists(fs, LatestPath)
              /\ \A key \in RequiredFields : ~Lacks(fs[LatestPath].data, key)) =>
              VariantLoadOutcome(regOut, fs[LatestPath].data)

LoadOutcome(out, f) ==
    /\ out.status \in {"ok", "raised"}
    /\ out.status = "raised" => out.detector = None /\ out.metadata = None
    /\ ~Exists(f, LatestPath) =>
          out.status = "raised" /\ out.exc = "FileNotFoundError" /\ out.why = "no_latest"
    /\ (Exists(f, LatestPath)
          /\ \E key \in {"model_type", "path"} : Lacks(f[LatestPath].data, key)) =>
          /\ out.status = "raised"
          /\ out.exc = "ValueError"
          /\ out.why = "invalid_metadata"
    /\ (Exists(f, LatestPath)
          /\ \A key \in {"model_type", "path"} : ~Lacks(f[LatestPath].data, key)) =>
          VariantLoadOutcome(out, f[LatestPath].data)

\* C10, amended: load_latest raises FileNotFoundError without a latest
\* pointer; ValueError when the latest record's model_type or path is missing
\* or empty (no other field is required: a record without version,
\* trained_at, feature_names or train_metrics still loads); ValueError when
\* model_type names no variant; otherwise it is the load of the variant named
\* by the lower-cased model_type, which raises FileNotFoundError when the
\* artifact is absent.  A failing call returns no detector, and no call
\* changes the stored files.
C10_LoadOutcomes ==
    [][regOut'.op = "load" => (fs' = fs /\ LoadOutcome(regOut', fs))]_vars

\* load_latest succeeded on a latest record that has no version field
C10_Witness ==
    /\ regOut.op = "load"
    /\ regOut.status = "ok"
    /\ regOut.detector = Some(OldDetector)
    /\ Exists(fs, LatestPath)
    /\ "version" \notin DOMAIN fs[LatestPath].data

\* C9: whenever it runs, beside a save or between saves, load_latest either
\* finds no latest pointer or returns a detector together with a complete
\* latest record; it never meets an empty latest.json or a latest record
\* whose artifact is only partly written.
C9_LatestPointerAtomic ==
    regOut.op = "load" =>
        \/ regOut.status = "raised" /\ regOut.why = "no_latest"
        \/ /\ regOut.status = "ok"
           /\ regOut.detector # None
           /\ regOut.metadata # None
           /\ regOut.metadata[1] = OldMetadata
                \/ (lastSaved # None /\ regOut.metadata[1] = lastSaved[1].metadata)
                \/ (saving # None /\ regOut.metadata = saving[1].metadata)

----------------------------------------------------------------------------
(* Claims about the parser and the ingest path *)

\* a line that is not empty after trimming whitespace
NonBlank(line) == \E i \in 1..Len(line) : line[i] \notin Whitespace

\* a non-blank line from its first to its last non-whitespace token
Trimmed(line) ==
    LET text == {i \in 1..Len(line) : line[i] \notin Whitespace}
        first == CHOOSE i \in text : \A j \in text : i <= j
        last == CHOOSE i \in text : \A j \in text : i >= j
    IN  SubSeq(line, first, last)

\* what one non-blank line gives under the lower-cased format f
ParseOne(line, f) ==
    IF f = "jsonl" THEN parse_json_line(Trimmed(line))
    ELSE IF f = "plain" THEN parse_plain_text(Trimmed(line))
    ELSE ParseRaised("ValueError", "unsupported_format")

\* index of the first non-blank line that does not parse, 0 if there is none
FirstBad(lines, f) ==
    LET bad == {i \in 1..Len(lines) :
                    NonBlank(lines[i]) /\ ParseOne(lines[i], f).status # "ok"}
    IN  IF bad = {} THEN 0 ELSE CHOOSE i \in bad : \A j \in bad : i <= j

\* C4: parse_lines with a format selector that is neither jsonl nor plain
\* raises ValueError (unsupported format) and returns no event, whatever the
\* lines are.
C4_UnsupportedFormatRaises ==
    (ingOut.op = "parse_lines" /\ Lower(ingOut.fmt) \notin {"jsonl", "plain"}) =>
        /\ ingOut.status = "raised"
        /\ ingOut.exc = "ValueError"
        /\ ingOut.why = "unsupported_format"
        /\ ingOut.events = <<>>

C6_FailFastNothingStored ==
    [][(/\ ingOut.op = "none"
        /\ ingOut'.op \in {"parse_lines", "ingest", "post"}
        /\ ingOut'.op = "post" => (service # None /\ ingOut'.fmt \in {"jsonl", "plain"})
        /\ FirstBad(ingOut'.lines, Lower(ingOut'.fmt)) # 0)
       => LET k == FirstBad(ingOut'.lines, Lower(ingOut'.fmt))
              bad == ParseOne(ingOut'.lines[k], Lower(ingOut'.fmt))
          IN  /\ ingOut'.status = "raised"
              /\ ingOut'.at = k
              /\ ingOut'.exc = bad.exc
              /\ ingOut'.why = bad.why
              /\ ingOut'.events = <<>>
              /\ ingOut'.results = <<>>
              /\ ~ingOut'.predicted
              /\ ~ingOut'.saved
              /\ ingOut'.received = 0
              /\ storage' = storage]_vars

\* ingest on a table holding rows raised at its second line, after a first
\* line that parsed
C6_Witness ==
    /\ ingOut.op = "ingest"
    /\ ingOut.status = "raised"
    /\ ingOut.at = 2
    /\ NonBlank(ingOut.lines[1])
    /\ storage = OldRows

-----------------------------------------------------------------------------
(* Concurrent score / predict calls on one trained instance,                *)
(* infrastructure/models/baseline.py.  A step is one iteration of the loop  *)
(* of score, the return of score into predict, or the loop of predict.      *)

\* the batches the served instance was trained on
ServeTrainBatches ==
    {<<>>, <<EvItem123>>, <<EvItem123, EvItem123, EvNoPath>>}
ServeThresholds == {Frac(1, 2), One}

\* a score that counts every event it serves into the instance
ScoredInstanceLearning(self, event) ==
    LET t == _event_template(event)
        counts == [u \in DOMAIN self.template_counts \cup {t} |->
                      CounterGet(self.template_counts, u) + (IF u = t THEN 1 ELSE 0)]
    IN  [self EXCEPT !.template_counts = counts,
                     !.total = SumOver(counts, DOMAIN counts),
                     !.max_count = MaxOver(counts)]

\* the instance after one iteration of the loop of score: the body reads
\* template_counts (Counter.get inserts nothing) and max_count and appends
\* to the local list only
ScoredInstance(self, event) == self

InFlight(call) == call.pc \in {"scoring", "pairing"}

ServeInit ==
    /\ \E batch \in ServeTrainBatches :
          /\ detector = BaselineTrain(BaselineNew("baseline"), batch)
          /\ trainedOn = Counter(batch)
    /\ detOut = NoCall
    /\ now = 0
    /\ fs = << >>
    /\ regOut = NoRegCall
    /\ lastSaved = <<>>
    /\ prevSaved = <<>>
    /\ nSaves = 0
    /\ SaveIdle
    /\ service = <<>>
    /\ storage = <<>>
    /\ ingOut = NoIngCall
    /\ calls = NoCalls
    /\ ParseIdle

\* predict is entered and calls score, which starts with an empty list
PredictBegin(t, events, limit) ==
    /\ calls[t].pc = "idle"
    /\ calls' = [calls EXCEPT ![t] =
                    [IdleCall EXCEPT !.pc = "scoring", !.events = events,
                                     !.threshold = limit, !.i = 1,
                                     !.overlapped =
                                         \E u \in Threads \ {t} : InFlight(calls[u])]]
    /\ UNCHANGED <<detVars, regVars, saveVars, ingVars, parseVars>>

\* one iteration of the loop of score
ScoreEvent(t) ==
    /\ calls[t].pc = "scoring"
    /\ calls[t].i <= Len(calls[t].events)
    /\ calls' = [calls EXCEPT ![t].scores =
                                  Append(@, BaselineScoreOne(detector,
                                                calls[t].events[calls[t].i])),
                              ![t].i = @ + 1]
    /\ detector' = ScoredInstance(detector, calls[t].events[calls[t].i])
    /\ UNCHANGED <<detOut, trainedOn, regVars, saveVars, ingVars, parseVars>>

\* the loop of score is exhausted: score returns its list to predict
ScoreReturn(t) ==
    /\ calls[t].pc = "scoring"
    /\ calls[t].i > Len(calls[t].events)
    /\ calls' = [calls EXCEPT ![t].pc = "pairing"]
    /\ UNCHANGED <<detVars, regVars, saveVars, ingVars, parseVars>>

\* predict pairs events and scores, reading threshold and model_version
PredictReturn(t) ==
    /\ calls[t].pc = "pairing"
    /\ calls' = [calls EXCEPT ![t].pc = "done",
                              ![t].results =
                                  [i \in 1..Len(calls[t].events) |->
                                      [event |-> calls[t].events[i],
                                       score |-> calls[t].scores[i],
                                       is_anomaly |-> FGeq(calls[t].scores[i],
                                                           calls[t].threshold),
                                       model_version |-> detector.model_version]]]
    /\ UNCHANGED <<detVars, regVars, saveVars, ingVars, parseVars>>

ServeNext ==
    \/ \E t \in Threads, events \in ScoreBatches, limit \in ServeThresholds :
          PredictBegin(t, events, limit)
    \/ \E t \in Threads : ScoreEvent(t)
    \/ \E t \in Threads : ScoreReturn(t)
    \/ \E t \in Threads : PredictReturn(t)

SpecServe == ServeInit /\ [][ServeNext]_vars

-----------------------------------------------------------------------------
(* FrequencyBaselineDetector.save / load called directly on a path,         *)
(* infrastructure/models/baseline.py                                        *)

StoreDirs == {"a", "b"}
VersionTags == {"baseline", "v2"}

StoreInit ==
    /\ detector \in {BaselineNew(v) : v \in VersionTags}
    /\ detOut = NoCall
    /\ trainedOn = << >>
    /\ now = 0
    /\ fs = << >>
    /\ regOut = NoRegCall
    /\ lastSaved = <<>>
    /\ prevSaved = <<>>
    /\ nSaves = 0
    /\ SaveIdle
    /\ IngIdle

\* detector.save(dir): the outcome keeps the instance that was written
DetectorSave(dir) ==
    /\ fs' = DetSave(fs, detector, dir)
    /\ regOut' = [op |-> "detector_save", dir |-> dir, status |-> "ok", exc |-> "",
                  why |-> "", detector |-> Some(detector), metadata |-> None]
    /\ UNCHANGED <<now, lastSaved, prevSaved, nSaves, detVars, saveVars, ingVars, serveVars, parseVars>>

\* FrequencyBaselineDetector.load(dir): a class method, it builds a new instance
DetectorLoad(dir) ==
    /\ regOut' = [op |-> "detector_load", dir |-> dir] @@ BaselineLoad(fs, dir)
    /\ UNCHANGED <<now, fs, lastSaved, prevSaved, nSaves, detVars, saveVars, ingVars, serveVars, parseVars>>

StoreNext ==
    \/ \E events \in ServeTrainBatches : TrainBaseline(events)
    \/ \E dir \in StoreDirs : DetectorSave(dir)
    \/ \E dir \in StoreDirs : DetectorLoad(dir)

SpecStore == StoreInit /\ [][StoreNext]_vars

-----------------------------------------------------------------------------
(* Serving specification: a service built at startup takes ingest calls     *)
(* while train_model runs again on the same artifact directory.             *)

MaxStored == 3

\* the artifact directory after train_model(events, model_type) at time t
TrainedStoreOn(events, model_type, t) ==
    LET Saved(trained) ==
            RegistrySave(<< >>, trained.detector, model_type, trained.train_metrics, t).fs
    IN  Saved(TrainAndCalibrate(events, model_type, 1))

\* the directory `f` with the train_metrics of its latest record replaced
WithTrainMetrics(f, train_metrics) ==
    DumpClose(f, LatestPath, [f[LatestPath].data EXCEPT !.train_metrics = train_metrics])

\* the directory `f` with `key` removed from the train_metrics of its latest record
WithoutMetric(f, key) ==
    LET train_metrics == f[LatestPath].data.train_metrics
    IN  WithTrainMetrics(f, [k \in DOMAIN train_metrics \ {key} |-> train_metrics[k]])

\* the directory `f` with `key` removed from its latest record
WithoutField(f, key) ==
    LET record == f[LatestPath].data
    IN  DumpClose(f, LatestPath, [k \in DOMAIN record \ {key} |-> record[k]])

\* a training batch that holds none of the message-only events served later
EvLogin == [method |-> Some("POST"), status |-> Some(302),
            path |-> Some(<<"/", "login">>),
            message |-> <<"POST", " ", "/", "login">>]
LoginBatch == <<EvLogin, EvLogin, EvItem123>>

\* the directories train_model leaves and, for each, what is left of it when
\* its latest record loses train_metrics, has them empty, loses the threshold
\* or holds one that is not a number
ThresholdStores ==
    UNION {{f,
            WithoutField(f, "train_metrics"),
            WithTrainMetrics(f, << >>),
            WithoutMetric(f, "threshold")}
           \cup {WithTrainMetrics(f, [f[LatestPath].data.train_metrics
                                         EXCEPT !.threshold = v]) : v \in NonNumbers} :
           f \in {TrainedStoreOn(ServedBatch, "baseline", -2),
                  TrainedStoreOn(<<>>, "baseline", -2),
                  TrainedStoreOn(ServedBatch, "iforest", -2)}}

ThresholdLines ==
    {<< <<JsonNoPath>> >>, << <<" ", JsonItem77, "\n">>, <<JsonNoPath>> >>}

ThresholdInit ==
    /\ DetIdle
    /\ now = 0
    /\ fs \in ThresholdStores
    /\ regOut = NoRegCall
    /\ lastSaved = None
    /\ prevSaved = None
    /\ nSaves = 0
    /\ SaveIdle
    /\ service = None
    /\ storage = <<>>
    /\ ingOut = NoIngCall
    /\ calls = NoCalls
    /\ ParseIdle

\* AnomalyService.ingest on the built service; the outcome keeps the value
\* of self.threshold the call handed to predict
ServedIngest ==
    /\ service # None
    /\ Len(storage) < MaxStored
    /\ \E lines \in ThresholdLines :
          \E out \in {AnomalyServiceIngest(service[1], storage, lines, "jsonl")} :
              /\ ingOut' = [threshold |-> threshold(service[1])] @@
                           [NoIngCall EXCEPT !.op = "ingest", !.lines = lines,
                                             !.fmt = "jsonl",
                                             !.status = out.status, !.exc = out.exc,
                                             !.why = out.why, !.at = out.at,
                                             !.events = out.events, !.results = out.results,
                                             !.predicted = out.predicted,
                                             !.saved = out.saved]
              /\ storage' = out.storage
    /\ UNCHANGED <<service, detVars, regVars, saveVars, serveVars, parseVars>>

ThresholdNext ==
    \/ Lifespan
    \/ ServedIngest
    \/ \E events \in {<<>>, ServedBatch} : TrainModel(events, "baseline", 1)

SpecThreshold == ThresholdInit /\ [][ThresholdNext]_vars

\* the directories train_model leaves for a Baseline, as it wrote them
TemplateStores ==
    {TrainedStoreOn(batch, "baseline", -2) : batch \in {ServedBatch, LoginBatch, <<>>}}

TemplateInit ==
    /\ DetIdle
    /\ now = 0
    /\ fs \in TemplateStores
    /\ regOut = NoRegCall
    /\ lastSaved = None
    /\ prevSaved = None
    /\ nSaves = 0
    /\ SaveIdle
    /\ service = None
    /\ storage = <<>>
    /\ ingOut = NoIngCall
    /\ calls = NoCalls
    /\ ParseIdle

TemplateNext ==
    \/ Lifespan
    \/ ServedIngest
    \/ \E events \in {<<>>, LoginBatch} : TrainModel(events, "baseline", 1)

SpecTemplate == TemplateInit /\ [][TemplateNext]_vars

-----------------------------------------------------------------------------
(* Field level model of the two parsers, application/parsers.py and         *)
(* domain/models.py.  A line is given by its fields: the decoded JSON       *)
(* object, whose values are optional (null is None), or the groups the      *)
(* access log pattern matched, with the digits of status and bytes_sent     *)
(* read as the integer and the path taken from the request line.  The       *)
(* LogEvent is projected on the fields that the alias, dash and level       *)
(* rules decide.                                                            *)

\* dict.get(key)
FieldGet(data, key) == IF key \in DOMAIN data THEN data[key] ELSE None

\* Python `a or b` on an optional str and on an optional int
OrStr(a, b) == IF TruthyStr(a) THEN a ELSE b
OrInt(a, b) == IF TruthyInt(a) THEN a ELSE b

_clean_dash(value) ==
    IF value = None THEN None
    ELSE IF value[1] = <<"-">> \/ value[1] = <<>> THEN None
    ELSE value

\* a level rule with strict comparisons
_status_to_level_strict(status) ==
    IF status = None THEN <<"INFO">>
    ELSE IF status[1] > 500 THEN <<"ERROR">>
    ELSE IF status[1] > 400 THEN <<"WARNING">>
    ELSE IF status[1] > 300 THEN <<"NOTICE">>
    ELSE <<"INFO">>

_status_to_level(status) ==
    IF status = None THEN <<"INFO">>
    ELSE IF status[1] >= 500 THEN <<"ERROR">>
    ELSE IF status[1] >= 400 THEN <<"WARNING">>
    ELSE IF status[1] >= 300 THEN <<"NOTICE">>
    ELSE <<"INFO">>

\* the decimal digits of a str and their values
DigitValue ==
    [c \in {"0", "1", "2", "3", "4", "5", "6", "7", "8", "9"} |->
        CASE c = "0" -> 0 [] c = "1" -> 1 [] c = "2" -> 2 [] c = "3" -> 3
          [] c = "4" -> 4 [] c = "5" -> 5 [] c = "6" -> 6 [] c = "7" -> 7
          [] c = "8" -> 8 [] c = "9" -> 9]

RECURSIVE DigitsValue(_)
DigitsValue(text) ==
    IF text = <<>> THEN 0
    ELSE 10 * DigitsValue(SubSeq(text, 1, Len(text) - 1)) + DigitValue[text[Len(text)]]

RECURSIVE PowerOfTen(_)
PowerOfTen(k) == IF k = 0 THEN 1 ELSE 10 * PowerOfTen(k - 1)

\* float(text) on a decimal literal: an optional minus sign, digits and at
\* most one point
float(text) ==
    LET negative == text # <<>> /\ Head(text) = "-"
        body == IF negative THEN Tail(text) ELSE text
        points == {i \in 1..Len(body) : body[i] = "."}
        point == IF points = {} THEN Len(body) + 1 ELSE CHOOSE i \in points : TRUE
        whole == SubSeq(body, 1, point - 1)
        part == SubSeq(body, point + 1, Len(body))
        magnitude == Frac(DigitsValue(whole) * PowerOfTen(Len(part)) + DigitsValue(part),
                          PowerOfTen(Len(part)))
    IN  IF negative THEN FSub(Zero, magnitude) ELSE magnitude

\* int(x) on a float: truncation towards zero
int(x) == IF x.n >= 0 THEN x.n \div x.d ELSE -((-x.n) \div x.d)

\* _parse_int on None and on a str; an int passes unchanged
_parse_int(value) ==
    IF value = None THEN None
    ELSE IF value[1] = <<"-">> \/ value[1] = <<>> THEN None
    ELSE Some(int(float(value[1])))

\* _parse_float on None and on a str; a float passes unchanged
_parse_float(value) ==
    IF value = None THEN None
    ELSE IF value[1] = <<"-">> \/ value[1] = <<>> THEN None
    ELSE Some(float(value[1]))

\* _normalize_payload on an object without timestamp aliases, request,
\* method and protocol; an int status or bytes_sent passes _parse_int
\* unchanged, a float request_time passes _parse_float unchanged
_normalize_payload(payload) ==
    LET status == FieldGet(payload, "status")
        d1 == IF status # None THEN Put(payload, "status", status) ELSE payload
        bytes_sent == OrInt(FieldGet(d1, "bytes_sent"), FieldGet(d1, "body_bytes_sent"))
        d2 == IF bytes_sent # None THEN Put(d1, "bytes_sent", bytes_sent) ELSE d1
        d3 == IF ~TruthyStr(FieldGet(d2, "level"))
              THEN Put(d2, "level", Some(_status_to_level(FieldGet(d2, "status"))))
              ELSE d2
        d4 == Put(d3, "remote_addr",
                  _clean_dash(OrStr(FieldGet(d3, "remote_addr"), FieldGet(d3, "ip"))))
        d5 == Put(d4, "remote_user",
                  _clean_dash(OrStr(FieldGet(d4, "remote_user"), FieldGet(d4, "user"))))
    IN  IF ~TruthyStr(FieldGet(d5, "service")) /\ ~TruthyStr(FieldGet(d5, "host"))
        THEN Put(d5, "service", Some(<<"nginx">>))
        ELSE d5

\* pydantic AliasChoices: the value under the first of `names` that is a key
\* of the input, the default None when none is
AliasChoices(data, names) ==
    LET present == {i \in 1..Len(names) : names[i] \in DOMAIN data}
    IN  IF present = {} THEN None
        ELSE data[names[CHOOSE i \in present : \A j \in present : i <= j]]

\* a validator that leaves the source fields as they are
ensure_source_absent(self) == self

\* LogEvent.ensure_source
ensure_source(self) ==
    IF ~TruthyStr(self.host) /\ ~TruthyStr(self.service)
    THEN [self EXCEPT !.service = Some(<<"nginx">>)]
    ELSE self

\* LogEvent.model_validate
model_validate(data) == ensure_source(
    [host |-> FieldGet(data, "host"),
     service |-> FieldGet(data, "service"),
     remote_addr |-> AliasChoices(data, <<"remote_addr", "ip", "client_ip">>),
     remote_user |-> AliasChoices(data, <<"remote_user", "user">>),
     method |-> FieldGet(data, "method"),
     path |-> AliasChoices(data, <<"path", "uri", "request_uri">>),
     protocol |-> FieldGet(data, "protocol"),
     status |-> FieldGet(data, "status"),
     bytes_sent |-> AliasChoices(data, <<"bytes_sent", "body_bytes_sent">>),
     referrer |-> AliasChoices(data, <<"referrer", "referer">>),
     user_agent |-> AliasChoices(data, <<"user_agent", "http_user_agent">>),
     request_time |-> FieldGet(data, "request_time"),
     level |-> IF "level" \in DOMAIN data THEN data["level"][1] ELSE <<"INFO">>])

\* parse_plain_text once the pattern matched: the payload it validates
plain_payload(groups) ==
    [service |-> Some(<<"nginx">>),
     remote_addr |-> _clean_dash(groups["remote_addr"]),
     remote_user |-> _clean_dash(groups["remote_user"]),
     method |-> FieldGet(groups, "method"),
     path |-> groups["path"],
     protocol |-> FieldGet(groups, "protocol"),
     status |-> groups["status"],
     bytes_sent |-> _parse_int(groups["bytes_sent"]),
     referrer |-> _clean_dash(groups["referrer"]),
     user_agent |-> _clean_dash(groups["user_agent"]),
     request_time |-> _parse_float(groups["request_time"]),
     level |-> Some(_status_to_level(groups["status"]))]

TextGroups ==
    {<<"remote_addr", "ip", "client_ip">>, <<"remote_user", "user">>,
     <<"path", "uri", "request_uri">>, <<"referrer", "referer">>,
     <<"user_agent", "http_user_agent">>}
BytesGroup == <<"bytes_sent", "body_bytes_sent">>

TextInputs == {None, Some(<<"-">>), Some(<<>>), Some(<<"a">>), Some(<<"b">>)}
IntInputs == {None, Some(0), Some(512), Some(1024), Some(-5)}
StatusInputs == {None, Some(-5), Some(200), Some(300), Some(404), Some(500)}
FloatInputs == {None, Some(Frac(-1, 2)), Some(Frac(3, 2))}
SourceInputs == {None, Some(<<>>), Some(<<"web">>)}
MethodInputs == {None, Some(<<"get">>), Some(<<"TRACE">>)}
LevelInputs == {None, Some(<<>>), Some(<<"debug">>), Some(<<"ERROR">>)}

\* the objects with some of `keys`, each under one of `values`
PartialMaps(keys, values) == UNION {[K -> values] : K \in SUBSET keys}

\* the keyword arguments of a direct LogEvent(...) construction that names
\* some of host and service
SourceFields == PartialMaps({"host", "service"}, SourceInputs)

\* JSON objects that use the aliases of one group, or a request_time, or some
\* of host and service, with or without a status and a level
JsonPayloads ==
    {aliases @@ status @@ level :
        aliases \in UNION ({PartialMaps(Range(g), TextInputs) : g \in TextGroups}
                           \cup {PartialMaps(Range(BytesGroup), IntInputs),
                                 PartialMaps({"request_time"}, FloatInputs),
                                 PartialMaps({"method"}, MethodInputs),
                                 SourceFields}),
        status \in PartialMaps({"status"}, StatusInputs),
        level \in PartialMaps({"level"}, LevelInputs)}

\* what the access log pattern can capture: \S+ is never empty, a quoted
\* group can be, status is three digits (held as the int they spell),
\* bytes_sent is any \S+ (a decimal literal here), request_time is optional
\* and made of digits and points
PlainGroups ==
    [remote_addr : {Some(<<"-">>), Some(<<"a">>)},
     remote_user : {Some(<<"-">>), Some(<<"a">>)},
     path : {None, Some(<<"a">>)},
     status : {s \in StatusInputs : s # None /\ s[1] >= 0},
     bytes_sent : {Some(<<"-">>), Some(<<"5", "1", "2">>), Some(<<"-", "5">>)},
     request_time : {None, Some(<<"1", ".", "5">>)},
     referrer : {Some(<<>>), Some(<<"-">>), Some(<<"a">>)},
     user_agent : {Some(<<>>), Some(<<"-">>), Some(<<"a">>)}]

FieldsInit ==
    /\ DetIdle
    /\ now = 0
    /\ fs = << >>
    /\ regOut = NoRegCall
    /\ lastSaved = <<>>
    /\ prevSaved = <<>>
    /\ nSaves = 0
    /\ SaveIdle
    /\ service = <<>>
    /\ storage = <<>>
    /\ ingOut = NoIngCall
    /\ calls = NoCalls
    /\ lineFields \in {[fmt |-> "jsonl", data |-> d] : d \in JsonPayloads}
                      \cup {[fmt |-> "plain", data |-> g] : g \in PlainGroups}
                      \cup {[fmt |-> "direct", data |-> d] : d \in SourceFields}
    /\ lineEvent = None

\* LogParser.parse_json_line on the decoded object
ParseJsonFields ==
    /\ lineFields.fmt = "jsonl"
    /\ lineEvent = None
    /\ lineEvent' = Some(model_validate(_normalize_payload(lineFields.data)))
    /\ UNCHANGED <<lineFields, detVars, regVars, saveVars, ingVars, serveVars>>

\* LogParser.parse_plain_text on the matched groups
ParsePlainGroups ==
    /\ lineFields.fmt = "plain"
    /\ lineEvent = None
    /\ lineEvent' = Some(model_validate(plain_payload(lineFields.data)))
    /\ UNCHANGED <<lineFields, detVars, regVars, saveVars, ingVars, serveVars>>

\* METHOD_MAP.get(method.upper(), -1) on a method of one token
method_code(method) ==
    LET upper == IF method = <<"get">> THEN <<"GET">> ELSE method
        METHOD_MAP == [m \in {<<"GET">>, <<"POST">>, <<"PUT">>, <<"DELETE">>,
                               <<"PATCH">>, <<"HEAD">>, <<"OPTIONS">>} |->
                          CASE m = <<"GET">> -> 0 [] m = <<"POST">> -> 1
                            [] m = <<"PUT">> -> 2 [] m = <<"DELETE">> -> 3
                            [] m = <<"PATCH">> -> 4 [] m = <<"HEAD">> -> 5
                            [] m = <<"OPTIONS">> -> 6]
    IN  IF upper \in DOMAIN METHOD_MAP THEN METHOD_MAP[upper] ELSE -1

\* a component the model keeps as the call that computes it: the hashes, the
\* logarithms, the clock features and the counts over the characters of a str
Computed(fn, of) == [fn |-> fn, of |-> of]

\* math.log1p is defined above -1 and raises ValueError at and below it
log1p_defined(x) == FLt(FInt(-1), x)

\* FeatureExtractor._event_to_features: the list it returns, in its order
_event_to_features(event) ==
    LET status == IF event.status # None THEN event.status[1] ELSE 0
        status_class == IF status # 0 THEN status \div 100 ELSE 0
        method == IF TruthyStr(event.method) THEN event.method[1] ELSE <<>>
        path == IF TruthyStr(event.path) THEN event.path[1] ELSE <<>>
        bytes_sent == FInt(IF TruthyInt(event.bytes_sent) THEN event.bytes_sent[1] ELSE 0)
        request_time == IF event.request_time # None THEN event.request_time[1] ELSE Zero
        user_agent == IF TruthyStr(event.user_agent) THEN event.user_agent[1] ELSE <<>>
        remote_addr == IF TruthyStr(event.remote_addr) THEN event.remote_addr[1] ELSE <<>>
    IN  IF ~log1p_defined(bytes_sent) \/ ~log1p_defined(request_time)
        THEN [raised |-> TRUE, exc |-> "ValueError", value |-> <<>>]
        ELSE [raised |-> FALSE, exc |-> "", value |->
               <<FInt(status), FInt(status_class), FInt(method_code(method)),
                 Computed("len", path), Computed("count_slash", path),
                 Computed("path_tokens", path), Computed("has_query", path),
                 Computed("is_static", path), Computed("log1p", bytes_sent),
                 Computed("log1p", request_time),
                 Computed("referrer_hash", event.referrer),
                 Computed("_hash_bucket", user_agent),
                 Computed("_hash_bucket", remote_addr),
                 Computed("hour", "timestamp"), Computed("hour_sin", "timestamp"),
                 Computed("hour_cos", "timestamp"), Computed("weekday", "timestamp"),
                 Computed("is_weekend", "timestamp"),
                 IF TruthyStr(event.remote_user) THEN One ELSE Zero,
                 Computed("len", event.remote_user), Computed("len", "message"),
                 Computed("suspicious_path", path), Computed("sql_keyword", path),
                 Computed("bot_ua", user_agent),
                 Computed("_hash_bucket", normalize_path(path))>>]

\* FeatureExtractor.transform on the one Event built from the line
ExtractFeatures ==
    /\ lineEvent # None
    /\ detOut.op # "transform"
    /\ detOut' = [op |-> "transform"] @@ _event_to_features(lineEvent[1])
    /\ UNCHANGED <<detector, trainedOn, parseVars, regVars, saveVars, ingVars, serveVars>>

\* LogEvent(...) called directly with keyword arguments
ConstructEvent ==
    /\ lineFields.fmt = "direct"
    /\ lineEvent = None
    /\ lineEvent' = Some(model_validate(lineFields.data))
    /\ UNCHANGED <<lineFields, detVars, regVars, saveVars, ingVars, serveVars>>

FieldsNext ==
    \/ ParseJsonFields
    \/ ParsePlainGroups
    \/ ConstructEvent
    \/ ExtractFeatures

SpecFields == FieldsInit /\ [][FieldsNext]_vars

(***************************************************************************)
(* Plain lines at the level of their text: parse_plain_text on the groups  *)
(* the access log pattern captures, to_plain_lines on the Event, and the   *)
(* pattern on the line written back.  A str is a sequence of tokens; the   *)
(* numeric groups are sequences of single characters.                      *)
(***************************************************************************)
Whitespaces == {" ", "\t"}
UpperWords == {"GET", "POST"}
Protocols == {"HTTP/1.1"}

RECURSIVE SkipSpaces(_)
SkipSpaces(text) ==
    IF text # <<>> /\ Head(text) \in Whitespaces THEN SkipSpaces(Tail(text)) ELSE text

NoRequest == [method |-> None, path |-> None, protocol |-> None]

\* _parse_request_line: REQUEST_RE.match on the request, a method of capital
\* letters, white space, a path without white space and, after more white
\* space, an optional protocol
_parse_request_line(request) ==
    IF request = None \/ request[1] = <<>> \/ request[1] = <<"-">> THEN NoRequest
    ELSE LET text == request[1]
             afterMethod == Tail(text)
             atPath == SkipSpaces(afterMethod)
             afterPath == IF atPath = <<>> THEN <<>> ELSE Tail(atPath)
             atProtocol == SkipSpaces(afterPath)
         IN  IF Head(text) \notin UpperWords \/ atPath = afterMethod \/ atPath = <<>>
             THEN NoRequest
             ELSE [method |-> Some(<<Head(text)>>),
                   path |-> Some(<<Head(atPath)>>),
                   protocol |-> IF atProtocol # afterPath /\ atProtocol # <<>>
                                     /\ Head(atProtocol) \in Protocols
                                THEN Some(<<Head(atProtocol)>>)
                                ELSE None]

\* parse_plain_text on the groups of a matched line
parse_plain_groups(groups) ==
    LET request == _parse_request_line(Some(groups.request))
        status == _parse_int(Some(groups.status))
    IN  model_validate(plain_payload(
            [remote_addr |-> Some(groups.remote_addr),
             remote_user |-> Some(groups.remote_user),
             method |-> request.method,
             path |-> request.path,
             protocol |-> request.protocol,
             status |-> status,
             bytes_sent |-> Some(groups.bytes_sent),
             referrer |-> Some(groups.referrer),
             user_agent |-> Some(groups.user_agent),
             request_time |-> groups.request_time]))

Digits == <<"0", "1", "2", "3", "4", "5", "6", "7", "8", "9">>

RECURSIVE NatText(_)
NatText(n) == IF n < 10 THEN <<Digits[n + 1]>> ELSE NatText(n \div 10) \o <<Digits[(n % 10) + 1]>>

\* str(n) of an int, as an f-string writes it
IntText(n) == IF n < 0 THEN <<"-">> \o NatText(-n) ELSE NatText(n)

\* f"{x:.3f}" of a float
FixedText(x) ==
    LET negative == x.n < 0
        thousandths == (2 * 1000 * Abs(x.n) + x.d) \div (2 * x.d)
        part == thousandths % 1000
    IN  (IF negative /\ thousandths > 0 THEN <<"-">> ELSE <<>>)
            \o NatText(thousandths \div 1000) \o <<".">>
            \o <<Digits[(part \div 100) + 1], Digits[((part \div 10) % 10) + 1],
                 Digits[(part % 10) + 1]>>

\* Python `value or "-"` on an optional str
OrDash(value) == IF TruthyStr(value) THEN value[1] ELSE <<"-">>

\* synthetic._build_message: the parts that are not empty, joined by a space
build_request_line(method, path, protocol) ==
    LET parts == SelectSeq(<<method, path, protocol>>, TruthyStr)
        Join[i \in 0..3] ==
            IF i = 0 THEN <<>>
            ELSE (IF i = 1 THEN <<>> ELSE Join[i - 1] \o <<" ">>) \o parts[i][1]
    IN  Join[Len(parts)]

\* to_plain_lines for one Event: the text written into each place of the line
to_plain_line(event) ==
    [remote_addr |-> OrDash(event.remote_addr),
     remote_user |-> OrDash(event.remote_user),
     request |-> build_request_line(event.method, event.path, event.protocol),
     status |-> IntText(IF TruthyInt(event.status) THEN event.status[1] ELSE 0),
     bytes_sent |-> IntText(IF TruthyInt(event.bytes_sent) THEN event.bytes_sent[1] ELSE 0),
     referrer |-> OrDash(event.referrer),
     user_agent |-> OrDash(event.user_agent),
     request_time |-> Some(FixedText(IF event.request_time # None
                                     THEN event.request_time[1] ELSE Zero))]

\* DEFAULT_PLAIN_PATTERNS on a line with these texts in its places: \S+ for
\* the addresses and bytes_sent, three digits for status, digits and points
\* for an optional request_time (no token of the model holds a quote)
PatternMatches(line) ==
    /\ \A field \in {"remote_addr", "remote_user", "bytes_sent"} :
          /\ line[field] # <<>>
          /\ \A i \in 1..Len(line[field]) : line[field][i] \notin Whitespaces
    /\ Len(line.status) = 3
    /\ \A i \in 1..3 : line.status[i] \in DOMAIN DigitValue
    /\ line.request_time # None =>
          /\ line.request_time[1] # <<>>
          /\ \A i \in 1..Len(line.request_time[1]) :
                line.request_time[1][i] \in DOMAIN DigitValue \cup {"."}

RoundTripLines ==
    [remote_addr : {<<"a">>},
     remote_user : {<<"-">>, <<"a">>},
     request : {<<>>, <<"-">>, <<"GET", " ", "/a", " ", "HTTP/1.1">>,
                <<"GET", " ", " ", "/a">>, <<"get", " ", "/a">>},
     status : {<<"0", "0", "0">>, <<"2", "0", "0">>, <<"4", "0", "4">>},
     bytes_sent : {<<"-">>, <<"0">>, <<"5", "1", "2">>},
     referrer : {<<>>, <<"-">>, <<"a">>},
     user_agent : {<<"-">>, <<"a">>},
     request_time : {None, Some(<<"1", ".", "5">>)}]

RoundTripInit ==
    /\ DetIdle
    /\ now = 0
    /\ fs = << >>
    /\ regOut = NoRegCall
    /\ lastSaved = <<>>
    /\ prevSaved = <<>>
    /\ nSaves = 0
    /\ SaveIdle
    /\ service = <<>>
    /\ storage = <<>>
    /\ ingOut = NoIngCall
    /\ calls = NoCalls
    /\ lineFields \in {[fmt |-> "plain", data |-> line] : line \in RoundTripLines}
    /\ lineEvent = None

\* LogParser.parse_plain_text on a line the pattern matches, the original
\* or the one written back
ParsePlainLine ==
    /\ lineFields.fmt \in {"plain", "written"}
    /\ lineEvent = None
    /\ PatternMatches(lineFields.data)
    /\ lineEvent' = Some(parse_plain_groups(lineFields.data))
    /\ UNCHANGED <<lineFields, detVars, regVars, saveVars, ingVars, serveVars>>

\* LogParser.parse_plain_text on a line no pattern matches: ValueError
ParsePlainLineRaises ==
    /\ lineFields.fmt \in {"plain", "written"}
    /\ lineEvent = None
    /\ ~PatternMatches(lineFields.data)
    /\ lineFields' = [lineFields EXCEPT !.fmt = "unmatched"]
    /\ UNCHANGED <<lineEvent, detVars, regVars, saveVars, ingVars, serveVars>>

\* to_plain_lines on the Event of the original line; the Event is kept as
\* `first` to compare with
WritePlainLine ==
    /\ lineFields.fmt = "plain"
    /\ lineEvent # None
    /\ lineFields' = [fmt |-> "written", data |-> to_plain_line(lineEvent[1]),
                      first |-> lineEvent[1]]
    /\ lineEvent' = None
    /\ UNCHANGED <<detVars, regVars, saveVars, ingVars, serveVars>>

RoundTripNext ==
    \/ ParsePlainLine
    \/ ParsePlainLineRaises
    \/ WritePlainLine

SpecRoundTrip == RoundTripInit /\ [][RoundTripNext]_vars

(***************************************************************************)
(* normalize_message on messages that hold an IPv4 address, a UUID, a      *)
(* 0x-prefixed hexadecimal literal and a bare integer, in any order, each  *)
(* delimited by a space or by `id=`.                                       *)
(***************************************************************************)
SpanKinds == {"ip", "uuid", "hex", "num"}

SpanTexts(kind) ==
    CASE kind = "ip" -> {<<"10", ".", "0", ".", "0", ".", "1">>,
                         <<"123", ".", "77", ".", "42", ".", "10">>}
      [] kind = "uuid" -> {<<"deadbeef", "-", "beef", "-", "1234", "-", "beef", "-",
                             "deadbeef1234">>,
                           <<"12345678", "-", "1234", "-", "1234", "-", "1234", "-",
                             "deadbeef1234">>}
      [] kind = "hex" -> {<<"0x1f">>, <<"0xdeadbeef">>}
      [] kind = "num" -> {<<"42">>, <<"1234567">>}

SpanMask(kind) ==
    CASE kind = "ip" -> "<IP>" [] kind = "uuid" -> "<UUID>"
      [] kind = "hex" -> "<HEX>" [] kind = "num" -> "<NUM>"

SpanDelimiters == {<<" ">>, <<" ", "id", "=">>}

\* the orders of the four kinds
KindOrders == {o \in [1..4 -> SpanKinds] : \A i, j \in 1..4 : i # j => o[i] # o[j]}

\* the four spans in some order, each with one of its texts
SpanOrders ==
    UNION {{[i \in 1..4 |-> [kind |-> order[i], text |-> texts[i]]] :
               texts \in {t \in [1..4 -> UNION {SpanTexts(k) : k \in SpanKinds}] :
                              \A i \in 1..4 : t[i] \in SpanTexts(order[i])}} :
           order \in KindOrders}

\* the message "GET" followed by the spans, a delimiter before each
MessageOf(parts, delimiter) ==
    <<"GET">> \o delimiter \o parts[1].text \o delimiter \o parts[2].text
              \o delimiter \o parts[3].text \o delimiter \o parts[4].text

NormalizeInit ==
    /\ DetIdle
    /\ now = 0
    /\ fs = << >>
    /\ regOut = NoRegCall
    /\ lastSaved = <<>>
    /\ prevSaved = <<>>
    /\ nSaves = 0
    /\ SaveIdle
    /\ service = <<>>
    /\ storage = <<>>
    /\ ingOut = NoIngCall
    /\ calls = NoCalls
    /\ lineFields \in {[fmt |-> "message", data |-> MessageOf(parts, delimiter),
                        parts |-> parts, delimiter |-> delimiter] :
                          parts \in SpanOrders, delimiter \in SpanDelimiters}
    /\ lineEvent = None

\* normalize_message on the message
NormalizeMessage ==
    /\ lineFields.fmt = "message"
    /\ lineEvent = None
    /\ lineEvent' = Some(normalize_message(lineFields.data))
    /\ UNCHANGED <<lineFields, detVars, regVars, saveVars, ingVars, serveVars>>

NormalizeNext == NormalizeMessage

SpecNormalize == NormalizeInit /\ [][NormalizeNext]_vars

(***************************************************************************)
(* Two ModelRegistry.save calls in flight on one artifact directory.  save *)
(* takes no lock: each call reads the clock, writes its artifact, writes   *)
(* its metadata.json and writes latest.json, and between two of these      *)
(* steps the other call can take any of its own.                           *)
(***************************************************************************)
RaceBatches == {<<EvItem123>>, <<EvItem77, EvNoPath>>}
RaceModelTypes == {"baseline", "iforest"}

IdleSave == [pc |-> "idle", detector |-> None, model_type |-> "", timestamp |-> 0,
             train_metrics |-> None, metadata |-> None]

RaceInit ==
    /\ DetIdle
    /\ now = 0
    /\ fs = << >>
    /\ regOut = NoRegCall
    /\ lastSaved = None
    /\ prevSaved = None
    /\ nSaves = 0
    /\ SaveIdle
    /\ service = <<>>
    /\ storage = <<>>
    /\ ingOut = NoIngCall
    /\ calls = [t \in Threads |-> IdleSave]
    /\ ParseIdle

\* save entered with a trained detector: the version is read off the clock
RaceSaveBegin(t, events, model_type) ==
    /\ calls[t].pc = "idle"
    /\ \E trained \in {TrainAndCalibrate(events, model_type, 1)} :
          calls' = [calls EXCEPT ![t] =
                       [pc |-> "begun", detector |-> Some(trained.detector),
                        model_type |-> model_type, timestamp |-> strftime(now),
                        train_metrics |-> Some(trained.train_metrics),
                        metadata |-> None]]
    /\ UNCHANGED <<detVars, regVars, saveVars, ingVars, parseVars>>

\* detector.save(model_dir)
RaceSaveArtifact(t) ==
    /\ calls[t].pc = "begun"
    /\ fs' = DetSave(fs, calls[t].detector[1],
                     ModelDir(calls[t].model_type, calls[t].timestamp))
    /\ calls' = [calls EXCEPT ![t].pc = "artifact_written"]
    /\ UNCHANGED <<now, regOut, lastSaved, prevSaved, nSaves, detVars, saveVars,
                   ingVars, parseVars>>

\* the metadata is built and dumped to metadata.json
RaceSaveMetadata(t) ==
    /\ calls[t].pc = "artifact_written"
    /\ LET metadata == Metadata(calls[t].model_type, calls[t].timestamp, now,
                                calls[t].train_metrics[1])
       IN  /\ fs' = DumpClose(fs, <<metadata.path, "metadata.json">>, metadata)
           /\ calls' = [calls EXCEPT ![t].pc = "metadata_written",
                                     ![t].metadata = Some(metadata)]
    /\ UNCHANGED <<now, regOut, lastSaved, prevSaved, nSaves, detVars, saveVars,
                   ingVars, parseVars>>

\* the metadata is dumped to latest.json and save returns
RaceSaveLatest(t) ==
    /\ calls[t].pc = "metadata_written"
    /\ fs' = DumpClose(fs, LatestPath, calls[t].metadata[1])
    /\ calls' = [calls EXCEPT ![t].pc = "done"]
    /\ UNCHANGED <<now, regOut, lastSaved, prevSaved, nSaves, detVars, saveVars,
                   ingVars, parseVars>>

RaceNext ==
    \/ Tick
    \/ \E t \in Threads, events \in RaceBatches, model_type \in RaceModelTypes :
          RaceSaveBegin(t, events, model_type)
    \/ \E t \in Threads : RaceSaveArtifact(t)
    \/ \E t \in Threads : RaceSaveMetadata(t)
    \/ \E t \in Threads : RaceSaveLatest(t)

SpecRace == RaceInit /\ [][RaceNext]_vars

----------------------------------------------------------------------------
(* Claims about retraining, serving and persistence of the detectors *)

\* the templates of the events of the bag `batch`
TemplatesOf(batch) == {_event_template(e) : e \in DOMAIN batch}

\* C11: whatever a Baseline instance was trained on before, its state after
\* train(B) is the state B alone gives: the counts are those of B's templates,
\* total is the size of B and max_count the largest count of B; after a
\* train on the empty batch the state is empty and every score is 1.
C11_TrainReplacesState ==
    detector.kind = "baseline" =>
        /\ DOMAIN detector.template_counts = TemplatesOf(trainedOn)
        /\ \A t \in TemplatesOf(trainedOn) :
              detector.template_counts[t] = TemplateCount(trainedOn, t)
        /\ detector.total = BatchSize(trainedOn)
        /\ detector.max_count = TemplateMax(trainedOn)
        /\ detector.model_version = "baseline"
        /\ (Returned("predict") /\ BatchSize(trainedOn) = 0) =>
              \A i \in 1..Len(detOut.events) : detOut.scores[i] = One

\* a train on the empty batch by an instance that held events of an earlier
\* train: nothing of them is left and every served event scores 1
C11_Witness ==
    /\ detector.kind = "baseline"
    /\ detOut.op = "train"
    /\ detOut.replaced > 0
    /\ BatchSize(trainedOn) = 0
    /\ detector.template_counts = << >>
    /\ \A e \in ServedEvents : BaselineScoreOne(detector, e) = One

\* C12: score and predict never modify the trained state of the instance
\* they are called on, so whatever the interleaving of the calls running on
\* one instance, a call that completes returns exactly the scores and the
\* results it returns when it runs alone on that instance.
C12_ServingIsReadOnly ==
    /\ [][detector' = detector]_vars
    /\ [](\A t \in Threads :
             calls[t].pc = "done" =>
                 /\ calls[t].scores = BaselineScore(detector, calls[t].events)
                 /\ calls[t].results =
                        BaselinePredict(detector, calls[t].events, calls[t].threshold))

\* both calls completed, the second having begun while the first was in
\* flight, on an instance whose counts tell the served events apart
C12_Witness ==
    /\ \A t \in Threads : calls[t].pc = "done" /\ Len(calls[t].events) = 2
    /\ calls[2].overlapped
    /\ calls[1].events # calls[2].events
    /\ detector.max_count = 2
    /\ \E i \in 1..2 : calls[1].scores[i] # One

\* C13: a load of a path right after a save of a trained Baseline to that
\* path returns an instance with the same template counts, total, max count
\* and version tag, which scores every event as the saved one does; a load of
\* a path that holds no artifact raises FileNotFoundError, returns no
\* instance and creates nothing.
C13_BaselineSaveLoadRoundTrip ==
    [][regOut'.op = "detector_load" =>
          /\ fs' = fs
          /\ ~Exists(fs, <<regOut'.dir, "baseline.json">>) =>
                /\ regOut'.status = "raised"
                /\ regOut'.exc = "FileNotFoundError"
                /\ regOut'.detector = None
          /\ (regOut.op = "detector_save" /\ regOut.dir = regOut'.dir) =>
                /\ regOut'.status = "ok"
                /\ regOut'.detector # None
                /\ LET saved == regOut.detector[1]
                       loaded == regOut'.detector[1]
                   IN  /\ loaded.template_counts = saved.template_counts
                       /\ loaded.total = saved.total
                       /\ loaded.max_count = saved.max_count
                       /\ loaded.model_version = saved.model_version
                       /\ \A e \in SampleEvents :
                             BaselineScoreOne(loaded, e) = BaselineScoreOne(saved, e)]_vars

\* an instance with its own version tag, trained on a batch with a repeated
\* template, loaded back from the path it was saved to while the other path
\* holds an older save
C13_Witness ==
    /\ regOut.op = "detector_load"
    /\ regOut.status = "ok"
    /\ regOut.detector = Some(detector)
    /\ detector.model_version = "v2"
    /\ detector.max_count = 2
    /\ detector.total = 3
    /\ \E other \in StoreDirs \ {regOut.dir} :
          /\ Exists(fs, <<other, "baseline.json">>)
          /\ fs[<<other, "baseline.json">>].data.total = 1

\* the 'threshold' of the train_metrics of the metadata `md`, if it is there as a number
CalibratedIn(md) ==
    IF /\ "train_metrics" \in DOMAIN md
       /\ "threshold" \in DOMAIN md.train_metrics
       /\ IsNumber(md.train_metrics.threshold)
    THEN Some(md.train_metrics.threshold)
    ELSE None

\* C14: every ingest call hands predict the 'threshold' of the train_metrics
\* of the metadata the service loaded at startup whenever that is a number,
\* 0.0 included, and otherwise the configured default, baseline_threshold
\* (0.85) for model_type baseline and anomaly_threshold (0.5) for any other
\* type, and its verdicts are taken against that value; successive ingest
\* calls of one service use the same value.
C14_CalibratedThresholdFirst ==
    /\ [](ingOut.op = "ingest" =>
            LET md == service[1].metadata
                expected == IF CalibratedIn(md) # None THEN CalibratedIn(md)[1]
                            ELSE IF md.model_type = "baseline" THEN Frac(85, 100)
                            ELSE Frac(1, 2)
            IN  /\ ingOut.threshold = expected
                /\ \A i \in 1..Len(ingOut.results) :
                      ingOut.results[i].is_anomaly
                          <=> FGeq(ingOut.results[i].score, expected))
    /\ [][(ingOut.op = "ingest" /\ ingOut'.op = "ingest") =>
              ingOut'.threshold = ingOut.threshold]_vars

\* a service calibrated at 0.0 has taken more than one ingest call, the last
\* after a retraining moved the latest record to another threshold
C14_Witness ==
    /\ ingOut.op = "ingest"
    /\ ingOut.threshold = Zero
    /\ CalibratedIn(service[1].metadata) = Some(Zero)
    /\ Len(storage) > Len(ingOut.results)
    /\ Len(ingOut.results) > 0
    /\ CalibratedIn(fs[LatestPath].data) \notin {None, Some(Zero)}

\* C15: calibration of an empty score list gives threshold 0.0 at quantile
\* 0.95 for either variant; every completed train_model wrote, in the
\* train_metrics of the version's metadata and of the latest record, quantile
\* 0.95 for the Baseline and 1 - contamination for the ExternalModel, and as
\* threshold the quantile of the training scores at that level (0.0 when
\* there are none), a value between the least and the greatest score.
C15_CalibrationPersisted ==
    /\ \A model_type \in {"baseline", "iforest", "isolation_forest"} :
          \A det \in {BaselineNew("baseline"), IForestNew("iforest")} :
              _calibrate_threshold(<<>>, model_type, det)
                  = [threshold |-> Zero, quantile |-> Frac(95, 100)]
    /\ lastSaved # None =>
          LET s == lastSaved[1]
              model_type == s.metadata.model_type
              train_metrics == s.metadata.train_metrics
              q == IF model_type = "baseline" THEN Frac(95, 100)
                   ELSE FSub(One, Frac(5, 100))
          IN  /\ fs[LatestPath].data.train_metrics = train_metrics
              /\ fs[<<s.metadata.path, "metadata.json">>].data.train_metrics = train_metrics
              /\ IF s.scores = <<>>
                 THEN /\ train_metrics.threshold = Zero
                      /\ train_metrics.threshold_quantile = Frac(95, 100)
                 ELSE /\ train_metrics.threshold_quantile = q
                      /\ train_metrics.threshold = Quantile(s.scores, q)
                      /\ \E i \in 1..Len(s.scores) : FGeq(train_metrics.threshold, s.scores[i])
                      /\ \E i \in 1..Len(s.scores) : FGeq(s.scores[i], train_metrics.threshold)

\* a train_model on a batch whose scores differ persisted a threshold that
\* lies strictly between two of them, at quantile 0.95
C15_Witness ==
    /\ lastSaved # None
    /\ fs[LatestPath].data.train_metrics.threshold_quantile = Frac(95, 100)
    /\ fs[LatestPath].data.train_metrics.threshold
          = lastSaved[1].metadata.train_metrics.threshold
    /\ LET t == lastSaved[1].metadata.train_metrics.threshold
           scores == lastSaved[1].scores
       IN  /\ \E i \in 1..Len(scores) : FLt(scores[i], t)
           /\ \E i \in 1..Len(scores) : FLt(t, scores[i])

\* C16: a train_model call whose model_type, lower-cased, is neither
\* baseline nor isolation_forest nor iforest raises ValueError for the
\* unsupported type and leaves the artifact directory as it was: no version
\* directory, no metadata record and no latest pointer is written, and the
\* latest pointer of an earlier save stays as it is.
C16_UnsupportedTypeWritesNothing ==
    [][(/\ regOut'.op = "train_model"
        /\ Lower(regOut'.selector) \notin {"baseline", "isolation_forest", "iforest"}) =>
           /\ regOut'.status = "raised"
           /\ regOut'.exc = "ValueError"
           /\ regOut'.why = "unsupported_model_type"
           /\ regOut'.metadata = None
           /\ fs' = fs
           /\ lastSaved' = lastSaved
           /\ nSaves' = nSaves]_vars

\* train_model("XGBoost") raised on a directory whose latest pointer a
\* completed train_model of this process wrote
C16_Witness ==
    /\ regOut.op = "train_model"
    /\ regOut.selector = "XGBoost"
    /\ regOut.status = "raised"
    /\ lastSaved # None
    /\ Exists(fs, LatestPath)
    /\ fs[LatestPath].data = lastSaved[1].metadata

\* a value that is neither null nor a placeholder
Supplied(value) == value # None /\ value[1] # <<>> /\ value[1] # <<"-">>

\* the Event field the aliases `names` resolve to
Canonical(names) == names[1]

\* C17: in an Event built from a JSON object, the canonical field of every
\* alias group holds the value under the first alias of the group, in the
\* listed order, that is a key of the object, whenever that value is neither
\* null nor a placeholder; so an object that has only the last alias of a
\* group gives the field the value under it.
C17_FirstPresentAliasWins ==
    (lineEvent # None /\ lineFields.fmt = "jsonl") =>
        \A names \in TextGroups \cup {BytesGroup} :
            LET data == lineFields.data
                present == {i \in 1..Len(names) : names[i] \in DOMAIN data}
                first == CHOOSE i \in present : \A j \in present : i <= j
            IN  (present # {} /\ data[names[first]] # None
                    /\ (names = BytesGroup \/ Supplied(data[names[first]]))) =>
                    lineEvent[1][Canonical(names)] = data[names[first]]

\* C18: in every Event built by either parser, none of remote_addr,
\* remote_user, referrer and user_agent holds '-' or '': a field whose input
\* was one of the two is absent.
C18_DashAndEmptyAreAbsent ==
    lineEvent # None =>
        \A field \in {"remote_addr", "remote_user", "referrer", "user_agent"} :
            lineEvent[1][field] \notin {Some(<<"-">>), Some(<<>>)}

\* the level the status decides
LevelOf(status) ==
    IF status = None THEN <<"INFO">>
    ELSE IF status[1] >= 500 THEN <<"ERROR">>
    ELSE IF status[1] >= 400 THEN <<"WARNING">>
    ELSE IF status[1] >= 300 THEN <<"NOTICE">>
    ELSE <<"INFO">>

\* C19: an Event built by either parser from a line that supplies no level
\* (every plain line; a JSON object without a level key, or with a null or
\* empty one) has the level its status decides: ERROR from 500, WARNING from
\* 400, NOTICE from 300, INFO below and INFO without a status.
C19_LevelDerivedFromStatus ==
    (/\ lineEvent # None
     /\ lineFields.fmt = "jsonl" => ~TruthyStr(FieldGet(lineFields.data, "level"))) =>
        /\ lineEvent[1].status = FieldGet(lineFields.data, "status")
        /\ lineEvent[1].level = LevelOf(lineEvent[1].status)

\* a JSON object with status 300 and no level parsed to NOTICE
C19_Witness ==
    /\ lineEvent # None
    /\ lineFields.fmt = "jsonl"
    /\ "level" \notin DOMAIN lineFields.data
    /\ FieldGet(lineFields.data, "status") = Some(300)
    /\ lineEvent[1].level = <<"NOTICE">>

\* C20: every Event built by either parser, from a JSON object that supplies
\* its own level included, has one of the levels INFO, NOTICE, WARNING, ERROR.
C20_LevelIsOneOfFour ==
    lineEvent # None =>
        lineEvent[1].level \in {<<"INFO">>, <<"NOTICE">>, <<"WARNING">>, <<"ERROR">>}

\* C21: in every Event built by either parser, status is absent or a
\* non-negative integer, bytes_sent is absent or non-negative and
\* request_time is absent or non-negative; a line carrying a negative value
\* never yields an Event holding it.
C21_NumericFieldsNonNegative ==
    (lineEvent # None /\ lineFields.fmt \in {"jsonl", "plain"}) =>
        /\ lineEvent[1].status = None \/ lineEvent[1].status[1] >= 0
        /\ lineEvent[1].bytes_sent = None \/ lineEvent[1].bytes_sent[1] >= 0
        /\ lineEvent[1].request_time = None
              \/ FGeq(lineEvent[1].request_time[1], Zero)

\* C22: every constructed Event has a non-empty host or a non-empty service;
\* one constructed with neither has service "nginx", and an Event of the
\* plain-text parser always has service "nginx".
C22_EventHasSource ==
    lineEvent # None =>
        /\ TruthyStr(lineEvent[1].host) \/ TruthyStr(lineEvent[1].service)
        /\ (~TruthyStr(FieldGet(lineFields.data, "host"))
               /\ ~TruthyStr(FieldGet(lineFields.data, "service"))) =>
                lineEvent[1].service = Some(<<"nginx">>)
        /\ lineFields.fmt = "plain" => lineEvent[1].service = Some(<<"nginx">>)

\* LogEvent(host="", service=None) was constructed and got service "nginx"
C22_Witness ==
    /\ lineEvent # None
    /\ lineFields.fmt = "direct"
    /\ FieldGet(lineFields.data, "host") = Some(<<>>)
    /\ "service" \notin DOMAIN lineFields.data
    /\ lineEvent[1].service = Some(<<"nginx">>)

\* C23: a plain line parsed and written back by to_plain_lines matches the
\* access log pattern again, and parsing it gives the method, path, protocol,
\* status, bytes_sent, referrer and user_agent of the first Event, also when
\* the bytes, the referrer or the user agent of the line is a dash and when
\* the request does not split into method and path.
C23_PlainRoundTrip ==
    /\ lineFields.fmt # "unmatched"
    /\ (lineFields.fmt = "written" /\ lineEvent # None) =>
          \A field \in {"method", "path", "protocol", "status", "bytes_sent",
                        "referrer", "user_agent"} :
              lineEvent[1][field] = lineFields.first[field]

\* C24: FeatureExtractor never fails: for every Event it returns a vector of
\* exactly 25 values, one per entry of feature_names in their order, whose
\* first component status_code is at least 0.
C24_FeaturesAlwaysExtracted ==
    detOut.op = "transform" =>
        /\ ~detOut.raised
        /\ Len(detOut.value) = Len(feature_names)
        /\ Len(feature_names) = 25
        /\ FGeq(detOut.value[1], Zero)

\* the raw scores the fitted library model gives the events of the last call
RawOfCall == IForestRaw(detector, detOut.events)

\* C25: every score of a trained ExternalModel lies in [0, 1]: it is the raw
\* score rescaled by the minimum and maximum raw score seen in training, 0.0
\* for a raw score below the training minimum, 1.0 for one above the training
\* maximum, and 0.0 for every event when the minimum equals the maximum.
C25_ScoresRescaledAndClamped ==
    (detector.kind = "iforest" /\ detOut.op = "predict" /\ ~detOut.raised) =>
        /\ detector.score_min # None /\ detector.score_max # None
        /\ \A i \in 1..Len(detOut.events) :
            LET raw == RawOfCall[i]
                lo == detector.score_min[1]
                hi == detector.score_max[1]
                score == detOut.scores[i]
            IN  /\ FGeq(score, Zero) /\ FGeq(One, score)
                /\ lo = hi => score = Zero
                /\ (lo < hi /\ raw < lo) => score = Zero
                /\ (lo < hi /\ raw > hi) => score = One
                /\ (lo < hi /\ lo <= raw /\ raw <= hi) =>
                      score.n * (hi - lo) = (raw - lo) * score.d

\* a call scored an event whose raw score is above the training maximum
C25_Witness ==
    /\ detector.kind = "iforest" /\ detOut.op = "predict" /\ ~detOut.raised
    /\ detector.score_min # None
    /\ detector.score_min[1] < detector.score_max[1]
    /\ \E i \in 1..Len(detOut.events) :
          RawOfCall[i] > detector.score_max[1] /\ detOut.scores[i] = One

\* the tokens of the IP, UUID and hex spans of the message
MaskedSpanTokens ==
    UNION {Range(lineFields.parts[i].text) \ {".", "-"} :
              i \in {j \in 1..4 : lineFields.parts[j].kind # "num"}}

\* C26: normalize_message masks IPv4 addresses, then UUIDs, then 0x-hex
\* literals, then bare integers: the result of a message that holds all four
\* is the message with each span replaced by its mask, so it holds <IP>,
\* <UUID>, <HEX> and <NUM>, no token of the IP, UUID or hex span is left in
\* it, and its only <NUM> is the one of the bare integer.
C26_MasksInOrder ==
    (lineFields.fmt = "message" /\ lineEvent # None) =>
        LET result == lineEvent[1]
            parts == lineFields.parts
            delimiter == lineFields.delimiter
        IN  /\ {"<IP>", "<UUID>", "<HEX>", "<NUM>"} \subseteq Range(result)
            /\ Range(result) \cap MaskedSpanTokens = {}
            /\ Cardinality({i \in 1..Len(result) : result[i] = "<NUM>"}) = 1
            /\ result = MessageOf([i \in 1..4 |->
                                      [kind |-> parts[i].kind,
                                       text |-> <<SpanMask(parts[i].kind)>>]],
                                  delimiter)

\* a message whose UUID is made of digits only in four of its groups and
\* whose IP comes last was normalized
C26_Witness ==
    /\ lineFields.fmt = "message"
    /\ lineEvent # None
    /\ lineFields.parts[4].kind = "ip"
    /\ \E i \in 1..3 : lineFields.parts[i].text[1] = "12345678"
    /\ lineEvent[1][Len(lineEvent[1])] = "<IP>"

\* C27: once two concurrent save calls have both completed, latest.json is a
\* complete record equal to the metadata of the save with the greatest
\* version, and the artifact and the metadata.json stored for that version
\* are the ones that same save wrote.
C27_ConcurrentSavesSerialized ==
    (\A t \in Threads : calls[t].pc = "done") =>
        \E t \in Threads :
            LET metadata == calls[t].metadata[1]
                saved == calls[t].detector[1]
            IN  /\ \A u \in Threads : calls[u].timestamp <= calls[t].timestamp
                /\ fs[LatestPath] = FullFile(metadata)
                /\ fs[<<metadata.path, "metadata.json">>] = FullFile(metadata)
                /\ fs[<<metadata.path, ArtifactName(saved)>>]
                      = FullFile(ArtifactPayload(saved))

\* C28: a stored version never changes: no step rewrites or removes a file
\* of a version directory, so after any sequence of saves the artifact and
\* the metadata of every earlier save are what that save wrote.
C28_VersionsImmutable ==
    [][\A p \in DOMAIN fs :
          p # LatestPath => (p \in DOMAIN fs' /\ fs'[p] = fs[p])]_vars

\* C29: save writes the artifact, then metadata.json, then latest.json, and a
\* save that fails writes nothing after the failure; so between the calls of
\* any sequential history of saves, aborted ones included, and load_latest
\* calls, a latest.json that exists names a directory that holds the artifact
\* of the model type it names, and load_latest succeeds.
C29_LatestAlwaysLoadable ==
    (savePc = "idle" /\ Exists(fs, LatestPath)) =>
        /\ fs[LatestPath].full
        /\ LET metadata == fs[LatestPath].data
           IN  _load_detector(fs, metadata.model_type, metadata.path).status = "ok"
        /\ load_latest(fs).status = "ok"

\* the scores a Baseline gives the batch it was trained on
TrainingScores(batch) == BaselineScore(BaselineTrain(BaselineNew("baseline"), batch), batch)

\* C30: the threshold train_model calibrates for a Baseline, on an empty batch
\* or not, lies in [0, 1] and, when there are training scores, between the
\* least and the greatest of them; so a service that serves such a Baseline
\* flags every ingested event whose template the training batch did not
\* hold: its score is 1.0 and is_anomaly is true.
C30_UnseenTemplateFlagged ==
    /\ (lastSaved # None /\ lastSaved[1].metadata.model_type = "baseline") =>
          LET calibrated == lastSaved[1].metadata.train_metrics.threshold
              scores == TrainingScores(lastSaved[1].events)
          IN  /\ FGeq(calibrated, Zero) /\ FGeq(One, calibrated)
              /\ scores # <<>> =>
                     \E lo, hi \in 1..Len(scores) :
                         FGeq(calibrated, scores[lo]) /\ FGeq(scores[hi], calibrated)
    /\ (/\ ingOut.op = "ingest"
        /\ service[1].detector.kind = "baseline"
        /\ CalibratedIn(service[1].metadata) # None) =>
          /\ FGeq(ingOut.threshold, Zero) /\ FGeq(One, ingOut.threshold)
          /\ \A i \in 1..Len(ingOut.results) :
                 _event_template(ingOut.results[i].event)
                       \notin DOMAIN service[1].detector.template_counts =>
                    /\ ingOut.results[i].score = One
                    /\ ingOut.results[i].is_anomaly

\* a service whose Baseline was trained on a batch of two templates, with a
\* calibrated threshold above 0, ingested an event of a third template and
\* flagged it
C30_Witness ==
    /\ ingOut.op = "ingest"
    /\ service[1].detector.kind = "baseline"
    /\ service[1].detector.total > 0
    /\ CalibratedIn(service[1].metadata) # None
    /\ FLt(Zero, ingOut.threshold)
    /\ \E i \in 1..Len(ingOut.results) :
          /\ _event_template(ingOut.results[i].event)
                \notin DOMAIN service[1].detector.template_counts
          /\ ingOut.results[i].is_anomaly

====
